---- MODULE Spec2Model ----
(***************************************************************************)
(* Makhos (Thai checkers) core: the 32-dark-square board tables, the       *)
(* Position value, applyMove and generateMoves (men, flying kings, capture *)
(* chains), driven by a perft-style walk over generated moves.             *)
(*                                                                         *)
(* A bitboard (uint32, every result passed through ">>> 0") is modelled as *)
(* the set of its set bit indices, a subset of 0..31: "|" is \cup, "&" is  *)
(* \cap, "& ~x" is set difference.                                         *)
(***************************************************************************)
EXTENDS Integers, Sequences, FiniteSets, TLC

\* ------------------------------------------------------------------------
\* Generic sequence helpers
\* ------------------------------------------------------------------------

RECURSIVE Flatten(_)
\* concatenation of a sequence of sequences, in order
Flatten(ss) ==
  IF Len(ss) = 0 THEN << >> ELSE Head(ss) \o Flatten(Tail(ss))

Last(s) == s[Len(s)]

\* ------------------------------------------------------------------------
\* bitboards.ts
\* ------------------------------------------------------------------------

\* B1(i) = (1 << i) >>> 0 : JavaScript takes the shift count modulo 32
B1(i) == { i % 32 }

\* buildMaps: the flat indices r*8+c of the dark squares, in index order
darkSquares ==
  SelectSeq([k \in 1..64 |-> k - 1],
            LAMBDA flat : (((flat \div 8) + (flat % 8)) % 2) = 1)

toRC(i) == [r |-> darkSquares[i + 1] \div 8, c |-> darkSquares[i + 1] % 8]

\* RC_TO_INDEX[r*8+c], -1 on a light square
toIndex(r, c) ==
  LET flat == r * 8 + c
  IN  IF \E i \in 1..Len(darkSquares) : darkSquares[i] = flat
        THEN (CHOOSE i \in 1..Len(darkSquares) : darkSquares[i] = flat) - 1
        ELSE -1

dirs ==
  << [dir |-> "UL", dr |-> -1, dc |-> -1],
     [dir |-> "UR", dr |-> -1, dc |-> 1],
     [dir |-> "DL", dr |-> 1,  dc |-> -1],
     [dir |-> "DR", dr |-> 1,  dc |-> 1] >>

\* buildAdjacency: the single steps of square i, in the order UL, UR, DL, DR
stepsOf(i) ==
  LET rc == toRC(i)
      stepIdx(k) ==
        LET r1 == rc.r + dirs[k].dr
            c1 == rc.c + dirs[k].dc
        IN  IF r1 >= 0 /\ r1 < 8 /\ c1 >= 0 /\ c1 < 8 THEN toIndex(r1, c1) ELSE -1
      all == [k \in 1..4 |-> [to |-> stepIdx(k), dir |-> dirs[k].dir]]
  IN  SelectSeq(all, LAMBDA st : st.to >= 0)

STEPS == [i \in 0..31 |-> stepsOf(i)]

RECURSIVE bitCount(_)
bitCount(x) ==
  IF x = {} THEN 0
  ELSE LET b == CHOOSE e \in x : TRUE IN 1 + bitCount(x \ {b})

RECURSIVE bits(_)
\* the set bit indices, lowest first
bits(bb) ==
  IF bb = {} THEN << >>
  ELSE LET lsb == CHOOSE e \in bb : \A f \in bb : e <= f
       IN  << lsb >> \o bits(bb \ {lsb})

\* ------------------------------------------------------------------------
\* position.ts
\* ------------------------------------------------------------------------

initialPosition ==
  [side |-> 1, p1Men |-> 24..31, p1Kings |-> {}, p2Men |-> 0..7, p2Kings |-> {},
   halfmoveClock |-> 0]

occupied(p) == p.p1Men \cup p.p1Kings \cup p.p2Men \cup p.p2Kings

sideMen(p)   == IF p.side = 1 THEN p.p1Men   ELSE p.p2Men
sideKings(p) == IF p.side = 1 THEN p.p1Kings ELSE p.p2Kings
oppMen(p)    == IF p.side = 1 THEN p.p2Men   ELSE p.p1Men
oppKings(p)  == IF p.side = 1 THEN p.p2Kings ELSE p.p1Kings

\* ------------------------------------------------------------------------
\* movegen.ts : helpers
\* ------------------------------------------------------------------------

LAST_RANK_P1 == {0, 1, 2, 3}
LAST_RANK_P2 == {28, 29, 30, 31}

\* mutant: the promotion row of P1 tested for either side
willPromote_p1Only(side, to) == to \in LAST_RANK_P1

willPromote(side, to) ==
  IF side = 1 THEN to \in LAST_RANK_P1 ELSE to \in LAST_RANK_P2

nextInDir(from, dir) ==
  LET hit == SelectSeq(STEPS[from], LAMBDA s : s.dir = dir)
  IN  IF Len(hit) > 0 THEN hit[1].to ELSE -1

RECURSIVE rayWalk(_, _)
rayWalk(cur, dir) ==
  LET nxt == nextInDir(cur, dir)
  IN  IF nxt < 0 THEN << >> ELSE << nxt >> \o rayWalk(nxt, dir)

RayTable == [s \in 0..31 |-> [d \in {"UL", "UR", "DL", "DR"} |-> rayWalk(s, d)]]

\* the squares met walking outward from `from` in direction dir, nearest first
ray(from, dir) == RayTable[from][dir]

\* mutant: the direction filter of the men loops dropped
menDirAllowed_any(side, dir) == dir \in {"UL", "UR", "DL", "DR"}

\* the early "continue" of the men loops: P1 up only, P2 down only
menDirAllowed(side, dir) ==
  /\ ~(side = 1 /\ dir \in {"DL", "DR"})
  /\ ~(side = -1 /\ dir \in {"UL", "UR"})

mkMove(from, to, captured, promote) ==
  [from |-> from, to |-> to, captured |-> captured, promote |-> promote]

\* ------------------------------------------------------------------------
\* movegen.ts : applyMove
\* ------------------------------------------------------------------------

RECURSIVE removeCaptured_menOnly(_, _, _)
\* mutant: captured squares cleared in opMen only
removeCaptured_menOnly(opp, caps, i) ==
  IF i > Len(caps) THEN opp
  ELSE removeCaptured_menOnly([opp EXCEPT !.men = @ \ B1(caps[i])], caps, i + 1)

RECURSIVE removeCaptured(_, _, _)
\* the loop over m.captured: a captured square is cleared in opMen when set
\* there, otherwise in opKings
removeCaptured(opp, caps, i) ==
  IF i > Len(caps) THEN opp
  ELSE LET cb == B1(caps[i])
       IN  IF opp.men \cap cb # {}
             THEN removeCaptured([opp EXCEPT !.men = @ \ cb], caps, i + 1)
             ELSE removeCaptured([opp EXCEPT !.kings = @ \ cb], caps, i + 1)

\* mutant: the promoted square set in myKings but left set in myMen
promotePiece_keepMan(my, toBit) == [my EXCEPT !.kings = @ \cup toBit]

\* if (m.promote && !movingKing): the man on `to` becomes a king
promotePiece(my, toBit) == [men |-> my.men \ toBit, kings |-> my.kings \cup toBit]

\* mutant: the clock counts every ply
nextHalfmoveClock_noReset(p, m) == p.halfmoveClock + 1

\* q.halfmoveClock
nextHalfmoveClock(p, m) ==
  IF Len(m.captured) > 0 THEN 0 ELSE p.halfmoveClock + 1

applyMove(p, m) ==
  LET fromBit == B1(m.from)
      toBit   == B1(m.to)
      movingKing == (sideKings(p) \cap fromBit) # {}
      myKings1 == IF movingKing THEN (sideKings(p) \ fromBit) \cup toBit ELSE sideKings(p)
      myMen1   == IF movingKing THEN sideMen(p) ELSE (sideMen(p) \ fromBit) \cup toBit
      opp      == removeCaptured([men |-> oppMen(p), kings |-> oppKings(p)], m.captured, 1)
      my       == IF m.promote /\ ~movingKing
                    THEN promotePiece([men |-> myMen1, kings |-> myKings1], toBit)
                    ELSE [men |-> myMen1, kings |-> myKings1]
      myMen2   == my.men
      myKings2 == my.kings
  IN  [side    |-> IF p.side = 1 THEN -1 ELSE 1,
       p1Men   |-> IF p.side = 1 THEN myMen2 ELSE opp.men,
       p1Kings |-> IF p.side = 1 THEN myKings2 ELSE opp.kings,
       p2Men   |-> IF p.side = 1 THEN opp.men ELSE myMen2,
       p2Kings |-> IF p.side = 1 THEN opp.kings ELSE myKings2,
       halfmoveClock |-> nextHalfmoveClock(p, m)]

\* ------------------------------------------------------------------------
\* movegen.ts : capture chains of a man (adjacent jump, forward only)
\* ------------------------------------------------------------------------

\* mutant: isEnemy tested against the whole occupancy
menJumpOk_anyPiece(side, st, myMen, myKings, opMen, opKings) ==
  /\ menDirAllowed(side, st.dir)
  /\ st.to >= 0
  /\ ((myMen \cup myKings \cup opMen \cup opKings) \cap B1(st.to)) # {}
  /\ nextInDir(st.to, st.dir) >= 0
  /\ ((myMen \cup myKings \cup opMen \cup opKings) \cap B1(nextInDir(st.to, st.dir))) = {}

\* the tests of one iteration of the men dfs loop that lead to a jump
menJumpOk(side, st, myMen, myKings, opMen, opKings) ==
  /\ menDirAllowed(side, st.dir)
  /\ st.to >= 0
  /\ ((opMen \cup opKings) \cap B1(st.to)) # {}
  /\ nextInDir(st.to, st.dir) >= 0
  /\ ((myMen \cup myKings \cup opMen \cup opKings) \cap B1(nextInDir(st.to, st.dir))) = {}

RECURSIVE menDfs(_, _, _, _, _, _, _, _, _)
\* dfs of genMenCapturesFrom: the moves pushed to `out`, in push order
menDfs(side, from, cur, myMen, myKings, opMen, opKings, path, caps) ==
  LET steps == STEPS[cur]
      jump(st) ==
        LET over       == st.to
            overBit    == B1(over)
            landing    == nextInDir(over, st.dir)
            landingBit == B1(landing)
            fromBit    == B1(cur)
            capturedWasKing == (opKings \cap overBit) # {}
            curIsKing  == (myKings \cap fromBit) # {}
            myKingsN   == IF curIsKing THEN (myKings \ fromBit) \cup landingBit ELSE myKings
            myMenN     == IF curIsKing THEN myMen ELSE (myMen \ fromBit) \cup landingBit
            opKingsN   == IF capturedWasKing THEN opKings \ overBit ELSE opKings
            opMenN     == IF capturedWasKing THEN opMen ELSE opMen \ overBit
        IN  menDfs(side, from, landing, myMenN, myKingsN, opMenN, opKingsN,
                   Append(path, landing), Append(caps, over))
      pushed ==
        Flatten([k \in 1..Len(steps) |->
                   IF menJumpOk(side, steps[k], myMen, myKings, opMen, opKings)
                     THEN jump(steps[k]) ELSE << >>])
      extended ==
        \E k \in 1..Len(steps) : menJumpOk(side, steps[k], myMen, myKings, opMen, opKings)
  IN  IF ~extended /\ Len(caps) > 0
        THEN LET lastTo == IF Len(path) > 0 THEN Last(path) ELSE cur
             IN  << mkMove(from, lastTo, caps, willPromote(side, lastTo)) >>
        ELSE pushed

genMenCapturesFrom(p, from) ==
  menDfs(p.side, from, from, sideMen(p), sideKings(p), oppMen(p), oppKings(p), << >>, << >>)

\* ------------------------------------------------------------------------
\* movegen.ts : capture chains of a king (flying, short landing)
\* ------------------------------------------------------------------------

RECURSIVE kingScan_fly(_, _, _, _, _, _)
\* mutant: the king flies on past the first empty square behind the enemy
\* and lands on the last empty square of the run
kingScan_fly(r, i, mine, enemies, seenEnemy, enemyIdx) ==
  IF i > Len(r) THEN [enemy |-> -1, landing |-> -1]
  ELSE LET bit     == B1(r[i])
           isMine  == (mine \cap bit) # {}
           isEnemy == (enemies \cap bit) # {}
           isEmpty == ((mine \cup enemies) \cap bit) = {}
           nextFree == i < Len(r) /\ ((mine \cup enemies) \cap B1(r[i + 1])) = {}
       IN  IF isMine THEN [enemy |-> -1, landing |-> -1]
           ELSE IF ~seenEnemy
             THEN IF isEmpty THEN kingScan_fly(r, i + 1, mine, enemies, FALSE, -1)
                  ELSE IF isEnemy THEN kingScan_fly(r, i + 1, mine, enemies, TRUE, r[i])
                  ELSE [enemy |-> -1, landing |-> -1]
             ELSE IF ~isEmpty THEN [enemy |-> -1, landing |-> -1]
                  ELSE IF nextFree
                    THEN kingScan_fly(r, i + 1, mine, enemies, TRUE, enemyIdx)
                    ELSE [enemy |-> enemyIdx, landing |-> r[i]]

RECURSIVE kingScan(_, _, _, _, _, _)
\* the walk along one ray in the king dfs: [enemy, landing] of the jump the
\* loop reaches, enemy = -1 when the loop ends (break or ray exhausted)
\* without one
kingScan(r, i, mine, enemies, seenEnemy, enemyIdx) ==
  IF i > Len(r) THEN [enemy |-> -1, landing |-> -1]
  ELSE LET bit     == B1(r[i])
           isMine  == (mine \cap bit) # {}
           isEnemy == (enemies \cap bit) # {}
           isEmpty == ((mine \cup enemies) \cap bit) = {}
       IN  IF isMine THEN [enemy |-> -1, landing |-> -1]
           ELSE IF ~seenEnemy
             THEN IF isEmpty THEN kingScan(r, i + 1, mine, enemies, FALSE, -1)
                  ELSE IF isEnemy THEN kingScan(r, i + 1, mine, enemies, TRUE, r[i])
                  ELSE [enemy |-> -1, landing |-> -1]
             ELSE IF ~isEmpty THEN [enemy |-> -1, landing |-> -1]
                  ELSE [enemy |-> enemyIdx, landing |-> r[i]]

RECURSIVE kingDfs(_, _, _, _, _, _, _, _)
\* dfs of genKingCapturesFrom: the moves pushed to `out`, in push order
kingDfs(from, cur, myMen, myKings, opMen, opKings, path, caps) ==
  LET hitIn(k) ==
        kingScan(ray(cur, dirs[k].dir), 1, myMen \cup myKings, opMen \cup opKings, FALSE, -1)
      jump(h) ==
        LET fromBit    == B1(cur)
            landingBit == B1(h.landing)
            enemyBit   == B1(h.enemy)
            capturedWasKing == (opKings \cap enemyBit) # {}
            myKingsN   == (myKings \ fromBit) \cup landingBit
            opKingsN   == IF capturedWasKing THEN opKings \ enemyBit ELSE opKings
            opMenN     == IF capturedWasKing THEN opMen ELSE opMen \ enemyBit
        IN  kingDfs(from, h.landing, myMen, myKingsN, opMenN, opKingsN,
                    Append(path, h.landing), Append(caps, h.enemy))
      pushed ==
        Flatten([k \in 1..4 |-> IF hitIn(k).landing >= 0 THEN jump(hitIn(k)) ELSE << >>])
      extended == \E k \in 1..4 : hitIn(k).landing >= 0
  IN  IF ~extended /\ Len(caps) > 0
        THEN LET lastTo == IF Len(path) > 0 THEN Last(path) ELSE cur
             IN  << mkMove(from, lastTo, caps, FALSE) >>
        ELSE pushed

genKingCapturesFrom(p, from) ==
  IF (sideKings(p) \cap B1(from)) = {} THEN << >>
  ELSE kingDfs(from, from, sideMen(p), sideKings(p), oppMen(p), oppKings(p), << >>, << >>)

\* ------------------------------------------------------------------------
\* movegen.ts : generateMoves
\* ------------------------------------------------------------------------

\* mutant: a man steps forward without the test that the square is empty
quietMenFrom_ontoOccupied(p, from) ==
  LET steps == STEPS[from]
      ok(st) == menDirAllowed(p.side, st.dir) /\ st.to >= 0
  IN  Flatten([k \in 1..Len(steps) |->
                 IF ok(steps[k])
                   THEN << mkMove(from, steps[k].to, << >>, willPromote(p.side, steps[k].to)) >>
                   ELSE << >>])

\* step 2 of generateMoves, men: one forward step onto an empty square
quietMenFrom(p, from) ==
  LET steps == STEPS[from]
      ok(st) == menDirAllowed(p.side, st.dir) /\ (B1(st.to) \cap occupied(p)) = {}
  IN  Flatten([k \in 1..Len(steps) |->
                 IF ok(steps[k])
                   THEN << mkMove(from, steps[k].to, << >>, willPromote(p.side, steps[k].to)) >>
                   ELSE << >>])

RECURSIVE quietRay_promote(_, _, _, _)
\* mutant: a king's quiet move flagged like a man's
quietRay_promote(p, from, r, i) ==
  IF i > Len(r) \/ (B1(r[i]) \cap occupied(p)) # {} THEN << >>
  ELSE << mkMove(from, r[i], << >>, willPromote(p.side, r[i])) >>
       \o quietRay_promote(p, from, r, i + 1)

RECURSIVE quietRay(_, _, _, _)
\* the inner loop over one ray of a king: push until the first occupied square
quietRay(p, from, r, i) ==
  IF i > Len(r) \/ (B1(r[i]) \cap occupied(p)) # {} THEN << >>
  ELSE << mkMove(from, r[i], << >>, FALSE) >> \o quietRay(p, from, r, i + 1)

\* step 2 of generateMoves, kings: fly any distance until blocked
quietKingFrom(p, from) ==
  Flatten([k \in 1..4 |-> quietRay(p, from, ray(from, dirs[k].dir), 1)])

\* mutant: the quiet moves returned along with the captures
generateMoves_quietToo(p) ==
  LET men   == bits(sideMen(p))
      kings == bits(sideKings(p))
  IN  Flatten([k \in 1..Len(men) |-> genMenCapturesFrom(p, men[k])])
      \o Flatten([k \in 1..Len(kings) |-> genKingCapturesFrom(p, kings[k])])
      \o Flatten([k \in 1..Len(men) |-> quietMenFrom(p, men[k])])
      \o Flatten([k \in 1..Len(kings) |-> quietKingFrom(p, kings[k])])

generateMoves(p) ==
  LET men   == bits(sideMen(p))
      kings == bits(sideKings(p))
      captures ==
        Flatten([k \in 1..Len(men) |-> genMenCapturesFrom(p, men[k])])
        \o Flatten([k \in 1..Len(kings) |-> genKingCapturesFrom(p, kings[k])])
      quiet ==
        Flatten([k \in 1..Len(men) |-> quietMenFrom(p, men[k])])
        \o Flatten([k \in 1..Len(kings) |-> quietKingFrom(p, kings[k])])
  IN  IF Len(captures) > 0 THEN captures ELSE quiet

\* ------------------------------------------------------------------------
\* The walk: perftRec(pos, d) generates the moves of pos and descends into
\* applyMove(pos, m) with d - 1 for a generated move m.
\* ------------------------------------------------------------------------

\* remaining depth of the walk at its root
MaxDepth == 2

\* start positions besides initialPosition(): sparse endgames, one piece of
\* the side to move (a man or a king) against opposing pieces on two crossing
\* diagonals of the board: one to three men or one or two kings when P1 is to
\* move, one or two men or kings when P2 is to move; the positions with P2 to
\* move are positions with P1 to move turned by 180 degrees (square s
\* becomes 31 - s)
EndgameSquares == {28, 24, 21, 17, 14, 10, 7, 3} \cup {8, 13, 22, 26}

MoverSquares == {28, 24, 17, 13}

OpposingSets == { S \in SUBSET EndgameSquares : Cardinality(S) \in 1..3 }

\* the invariants spec'd for a Position value
PositionOk(p) ==
  /\ p.side \in {1, -1}
  /\ \A f \in {"p1Men", "p1Kings", "p2Men", "p2Kings"} : p[f] \subseteq 0..31
  /\ p.p1Men \cap p.p1Kings = {} /\ p.p1Men \cap p.p2Men = {}
  /\ p.p1Men \cap p.p2Kings = {} /\ p.p1Kings \cap p.p2Men = {}
  /\ p.p1Kings \cap p.p2Kings = {} /\ p.p2Men \cap p.p2Kings = {}
  /\ p.p1Men \cap LAST_RANK_P1 = {}
  /\ p.p2Men \cap LAST_RANK_P2 = {}
  /\ p.halfmoveClock \in Nat

Turned(S) == { 31 - s : s \in S }

Endgame(side, a, king, S, K) ==
  LET mine == IF side = 1 THEN {a} ELSE Turned({a})
      men  == IF side = 1 THEN S \ K ELSE Turned(S \ K)
      kgs  == IF side = 1 THEN K ELSE Turned(K)
  IN  [side    |-> side,
       p1Men   |-> IF side = 1 THEN (IF king THEN {} ELSE mine) ELSE men,
       p1Kings |-> IF side = 1 THEN (IF king THEN mine ELSE {}) ELSE kgs,
       p2Men   |-> IF side = 1 THEN men ELSE (IF king THEN {} ELSE mine),
       p2Kings |-> IF side = 1 THEN kgs ELSE (IF king THEN mine ELSE {}),
       halfmoveClock |-> 0]

EndgamePositions ==
  { p \in
      UNION { { Endgame(side, a, king, S, K) :
                  K \in {{}} \cup (IF Cardinality(S) <= 2 THEN {S} ELSE {}) } :
              side \in {1, -1}, a \in MoverSquares, king \in BOOLEAN,
              S \in OpposingSets }
    : PositionOk(p) /\ (p.side = -1 => Cardinality(p.p1Men \cup p.p1Kings) <= 2) }

\* a lone P1 man on 24 facing a lone P2 man on one of its two forward
\* neighbours (20 up-left, 21 up-right), P1 to move
SingleJumpPosition(over) ==
  [side |-> 1, p1Men |-> {24}, p1Kings |-> {}, p2Men |-> {over}, p2Kings |-> {},
   halfmoveClock |-> 0]

\* the position after 25-21 6-9 24-20 1-6 26-22 4-8 29-24 8-13 21-17 9-14
\* from the initial position, P1 to move: the man on 17 can reach 1 by
\* jumping 13 and 5 or by jumping 14 and 6
TwoRoutesPosition ==
  [side |-> 1, p1Men |-> {17, 20, 22, 24, 27, 28, 30, 31}, p1Kings |-> {},
   p2Men |-> {0, 2, 3, 5, 6, 7, 13, 14}, p2Kings |-> {}, halfmoveClock |-> 10]

ScenarioPositions ==
  { SingleJumpPosition(20), SingleJumpPosition(21), TwoRoutesPosition }

StartPositions == {initialPosition} \cup EndgamePositions \cup ScenarioPositions

NoMove == mkMove(-1, -1, << >>, FALSE)

VARIABLES
  pos,     \* perftRec: pos of the current frame
  d,       \* perftRec: d of the current frame
  pc,      \* "gen" before generateMoves(pos) of the frame, "loop" after it
  moves,   \* perftRec: moves of the current frame
  parent,  \* pos of the calling frame
  m,       \* the move of the calling frame's loop that led here
  gpos,    \* playOneGame: pos
  gpc,     \* playOneGame: "draw?" at the top of the loop body, "moves?" after
           \* the inactivity test, "over" after a return
  gdraw,   \* playOneGame: the value isDrawByInactivity(pos) returned last
  gresult, \* playOneGame: << >> while playing, << result >> once returned
  plyCount,\* playOneGame: plyCount
  tt,      \* TT: the map m, a function from the keys present to their entries
  ttOp,    \* TT: the last method called: "new", "put", "get" or "clear"
  ttArg,   \* TT: the argument of the last call: << e >>, << k >> or << >>
  ttBefore,\* TT: the map m as it was when the last call was made
  ttGot,   \* TT: what the last get returned: << >> for undefined, else << e >>
  root,    \* iterativeDeepening: root
  rootMemo,\* rootMemoOf(root)
  depth,   \* iterativeDeepening: depth of the for loop
  alpha,   \* iterativeDeepening: alpha of the aspiration window
  beta,    \* iterativeDeepening: beta of the aspiration window
  result,  \* iterativeDeepening: result, what searchRoot returned last
  best,    \* iterativeDeepening: best (NoMove for undefined)
  bestScore, \* iterativeDeepening: bestScore
  reached, \* iterativeDeepening: reached
  lastScore, \* iterativeDeepening: lastScore
  haveLast,\* iterativeDeepening: haveLast
  expired, \* whether Date.now() > deadline by now
  infos,   \* the calls of onInfo so far, each [depth, score]
  ipc      \* iterativeDeepening: "search" before the call of searchRoot
           \* (line 153), "poll1" at the deadline test of line 156, "poll2"
           \* at the deadline test of line 162, "done" once it has returned
  ,
  nroot,   \* the position of the first call of alphabeta
  nfirst,  \* the first call: its arguments
  frame,   \* the call followed now: fn ("alphabeta" or "quiesce") and its
           \* arguments pos, depth, alpha, beta, ply, budget
  nmemo,   \* nodeMemoOf(frame.pos) once the call is entered
  locals,  \* the locals of the call: alpha, beta, a0, b0, best, bestKey, the
           \* sorted captures of quiesce (indices into the moves) and the
           \* indices of the moves searched so far
  nexpired,\* whether Date.now() > deadline by now
  npc,     \* "call" before the call is entered, "entry" at its first line,
           \* "loop" at the head of its for loop, "returned" once it has
           \* returned, "pv" once getPV has run
  nret,    \* << >> or << the value returned >>
  npv      \* what getPV returned

walkVars == << pos, d, pc, moves, parent, m >>
gameVars == << gpos, gpc, gdraw, gresult, plyCount >>
ttVars   == << tt, ttOp, ttArg, ttBefore, ttGot >>
searchVars == << root, rootMemo, depth, alpha, beta, result, best, bestScore, reached,
                 lastScore, haveLast, expired, infos, ipc >>

nodeVars == << nroot, nfirst, frame, nmemo, locals, nexpired, npc, nret, npv >>
vars == << walkVars, gameVars, ttVars, searchVars, nodeVars >>

\* the map of a TT with no entry
EmptyMap == [k \in {} |-> 0]

\* each specification below runs one part of the program; the variables of
\* the other parts then stay at these values
WalkIdle ==
  /\ pos = initialPosition /\ d = 0 /\ pc = "idle" /\ moves = << >>
  /\ parent = initialPosition /\ m = NoMove
GameIdle ==
  /\ gpos = initialPosition /\ gpc = "idle" /\ gdraw = FALSE /\ gresult = << >>
  /\ plyCount = 0
TTIdle ==
  /\ tt = EmptyMap /\ ttOp = "idle" /\ ttArg = << >>
  /\ ttBefore = EmptyMap /\ ttGot = << >>
SearchIdle ==
  /\ root = initialPosition /\ rootMemo = << >>
  /\ depth = 0 /\ alpha = 0 /\ beta = 0
  /\ result = [move |-> NoMove, score |-> 0]
  /\ best = NoMove /\ bestScore = 0 /\ reached = 0
  /\ lastScore = 0 /\ haveLast = FALSE /\ expired = FALSE
  /\ infos = << >> /\ ipc = "idle"

NoLocals ==
  [alpha |-> 0, beta |-> 0, a0 |-> 0, b0 |-> 0, best |-> 0, bestKey |-> -1,
   order |-> << >>, searched |-> {}]

NoFrame ==
  [fn |-> "none", pos |-> initialPosition, depth |-> 0, alpha |-> 0, beta |-> 0,
   ply |-> 0, budget |-> 0]

NodeIdle ==
  /\ nroot = initialPosition /\ nfirst = NoFrame /\ frame = NoFrame
  /\ nmemo = << >> /\ locals = NoLocals /\ nexpired = FALSE
  /\ npc = "idle" /\ nret = << >> /\ npv = << >>

Init ==
  /\ pos \in StartPositions
  /\ d = MaxDepth
  /\ pc = "gen"
  /\ moves = << >>
  /\ parent = pos
  /\ m = NoMove
  /\ GameIdle /\ TTIdle /\ SearchIdle /\ NodeIdle

\* const moves = generateMoves(pos)
Generate ==
  /\ pc = "gen"
  /\ moves' = generateMoves(pos)
  /\ pc' = "loop"
  /\ UNCHANGED << pos, d, parent, m >>
  /\ UNCHANGED << gameVars, ttVars, searchVars, nodeVars >>

\* for (const m of moves) ... perftRec(applyMove(pos, m), d - 1)
Descend ==
  /\ pc = "loop"
  /\ d > 0
  /\ \E k \in 1..Len(moves) :
       /\ pos' = applyMove(pos, moves[k])
       /\ m' = moves[k]
  /\ parent' = pos
  /\ d' = d - 1
  /\ pc' = "gen"
  /\ moves' = << >>
  /\ UNCHANGED << gameVars, ttVars, searchVars, nodeVars >>

Next == Generate \/ Descend

Spec == Init /\ [][Next]_vars

\* ------------------------------------------------------------------------
\* position.ts : isDrawByInactivity, and the game loop of playOneGame that
\* calls it at the top of every ply
\* ------------------------------------------------------------------------

DRAW_PIECE_THRESHOLD == 2

\* mutant: the window opens one ply late
isDrawByInactivity_late(p) ==
  LET p1Count == bitCount(p.p1Men \cup p.p1Kings)
      p2Count == bitCount(p.p2Men \cup p.p2Kings)
      fewPieces == p1Count <= DRAW_PIECE_THRESHOLD /\ p2Count <= DRAW_PIECE_THRESHOLD
  IN  fewPieces /\ p.halfmoveClock > 20

isDrawByInactivity(p) ==
  LET p1Count == bitCount(p.p1Men \cup p.p1Kings)
      p2Count == bitCount(p.p2Men \cup p.p2Kings)
      fewPieces == p1Count <= DRAW_PIECE_THRESHOLD /\ p2Count <= DRAW_PIECE_THRESHOLD
  IN  fewPieces /\ p.halfmoveClock >= 20

\* MAX_PLIES of playOneGame, cut down from 200
MaxPlies == 3

\* positions late in a game: one to three pieces a side on a few squares,
\* each side all men or all kings, the clock two or one plies short of 20
GameSquaresP1 == {28, 24, 17}
GameSquaresP2 == {3, 7, 14}
GameStartClocks == {18, 19}

GamePositions ==
  { p \in
      { [side |-> side,
         p1Men |-> IF k1 THEN {} ELSE A, p1Kings |-> IF k1 THEN A ELSE {},
         p2Men |-> IF k2 THEN {} ELSE B, p2Kings |-> IF k2 THEN B ELSE {},
         halfmoveClock |-> c] :
        side \in {1, -1}, k1 \in BOOLEAN, k2 \in BOOLEAN,
        A \in (SUBSET GameSquaresP1) \ {{}}, B \in (SUBSET GameSquaresP2) \ {{}},
        c \in GameStartClocks }
    : PositionOk(p) }

GameInit ==
  /\ gpos \in GamePositions
  /\ gpc = "draw?"
  /\ gdraw = FALSE
  /\ gresult = << >>
  /\ plyCount = 0
  /\ WalkIdle /\ TTIdle /\ SearchIdle /\ NodeIdle

\* while (plyCount < MAX_PLIES)
\*   if (isDrawByInactivity(pos)) return { positions, result: 0 }
DrawTest ==
  /\ gpc = "draw?"
  /\ plyCount < MaxPlies
  /\ gdraw' = isDrawByInactivity(gpos)
  /\ IF gdraw' THEN gpc' = "over" /\ gresult' = << 0 >>
               ELSE gpc' = "moves?" /\ gresult' = gresult
  /\ UNCHANGED << gpos, plyCount >>
  /\ UNCHANGED << walkVars, ttVars, searchVars, nodeVars >>

\* if (legalMoves.length === 0) return { positions, result: side === 1 ? -1 : 1 }
NoMovesReturn ==
  /\ gpc = "moves?"
  /\ Len(generateMoves(gpos)) = 0
  /\ gpc' = "over"
  /\ gresult' = << IF gpos.side = 1 THEN -1 ELSE 1 >>
  /\ UNCHANGED << gpos, gdraw, plyCount >>
  /\ UNCHANGED << walkVars, ttVars, searchVars, nodeVars >>

\* pos = applyMove(pos, searchResult.best); plyCount++ : the move played
\* is one of legalMoves, whichever the search prefers
PlayMove ==
  /\ gpc = "moves?"
  /\ \E k \in 1..Len(generateMoves(gpos)) :
       gpos' = applyMove(gpos, generateMoves(gpos)[k])
  /\ plyCount' = plyCount + 1
  /\ gpc' = "draw?"
  /\ UNCHANGED << gdraw, gresult >>
  /\ UNCHANGED << walkVars, ttVars, searchVars, nodeVars >>

\* return { positions, result: 0 } once plyCount reaches MAX_PLIES
PliesReturn ==
  /\ gpc = "draw?"
  /\ plyCount >= MaxPlies
  /\ gpc' = "over"
  /\ gresult' = << 0 >>
  /\ UNCHANGED << gpos, gdraw, plyCount >>
  /\ UNCHANGED << walkVars, ttVars, searchVars, nodeVars >>

GameNext == DrawTest \/ NoMovesReturn \/ PlayMove \/ PliesReturn

GameSpec == GameInit /\ [][GameNext]_vars

\* ------------------------------------------------------------------------
\* tt.ts : class TT
\* ------------------------------------------------------------------------

\* keys, depths and scores of the entries put
TTKeys == {11, 12}
MaxTTDepth == 2
TTScores == {0, 50}

TTEntries ==
  [key : TTKeys, depth : 0..MaxTTDepth, score : TTScores]

\* this.m.set(e.key, e)
MapSet(t, e) ==
  [k \in (DOMAIN t) \cup {e.key} |-> IF k = e.key THEN e ELSE t[k]]

\* this.m.get(k): << >> for undefined
MapGet(t, k) == IF k \in DOMAIN t THEN << t[k] >> ELSE << >>

\* mutant: always replace
TTput_always(t, e) ==
  MapSet(t, e)

\* put(e): const prev = this.m.get(e.key);
\*         if (!prev || e.depth >= prev.depth) this.m.set(e.key, e)
TTput(t, e) ==
  LET prev == MapGet(t, e.key)
  IN  IF prev = << >> \/ e.depth >= prev[1].depth THEN MapSet(t, e) ELSE t

\* get(k)
TTget(t, k) == MapGet(t, k)

TTInit ==
  /\ tt = EmptyMap
  /\ ttOp = "new"
  /\ ttArg = << >>
  /\ ttBefore = EmptyMap
  /\ ttGot = << >>
  /\ WalkIdle /\ GameIdle /\ SearchIdle /\ NodeIdle

Put ==
  /\ \E e \in TTEntries :
       /\ tt' = TTput(tt, e)
       /\ ttArg' = << e >>
  /\ ttOp' = "put"
  /\ ttBefore' = tt
  /\ UNCHANGED ttGot
  /\ UNCHANGED << walkVars, gameVars, searchVars, nodeVars >>

Get ==
  /\ \E k \in TTKeys :
       /\ ttGot' = TTget(tt, k)
       /\ ttArg' = << k >>
  /\ ttOp' = "get"
  /\ ttBefore' = tt
  /\ UNCHANGED tt
  /\ UNCHANGED << walkVars, gameVars, searchVars, nodeVars >>

\* clear(): this.m.clear()
Clear ==
  /\ tt' = EmptyMap
  /\ ttOp' = "clear"
  /\ ttArg' = << >>
  /\ ttBefore' = tt
  /\ UNCHANGED ttGot
  /\ UNCHANGED << walkVars, gameVars, searchVars, nodeVars >>

TTNext == Put \/ Get \/ Clear

TTSpec == TTInit /\ [][TTNext]_vars

\* ------------------------------------------------------------------------
\* zobrist.ts.  A 32-bit hash is the set of its 1 bits, as a bitboard is;
\* h ^= z is the symmetric difference.  Z_SIDE and Z_PIECE hold the numbers
\* that rand32 draws from R(0xC0FFEE), Z_SIDE first, then Z_PIECE[t][s] for
\* t = 0..3 (P1 man, P1 king, P2 man, P2 king) and s = 0..31 in turn.
\* ------------------------------------------------------------------------

Z_SIDE == {0, 1, 2, 5, 7, 8, 9, 10, 15, 16, 19, 21, 22, 24, 26}

Z_PIECE ==
  << << {0, 1, 3, 6, 8, 9, 10, 11, 13, 17, 18, 23, 25, 27, 29, 31},
        {0, 1, 3, 4, 5, 6, 7, 10, 12, 13, 18, 19, 21, 23, 24, 25, 26, 30, 31},
        {2, 11, 13, 14, 16, 18, 20, 22, 24, 26, 27, 28, 29, 31},
        {0, 2, 4, 8, 9, 10, 11, 19, 21, 22, 24, 25, 27, 28},
        {1, 2, 4, 10, 11, 14, 15, 17, 22, 31},
        {1, 2, 3, 9, 10, 11, 12, 13, 14, 16, 18, 19, 20, 22, 24, 26, 29},
        {3, 9, 10, 16, 18, 19, 20, 24, 26, 27, 28, 30},
        {1, 2, 3, 4, 8, 9, 10, 11, 12, 13, 15, 16, 18, 19, 20, 22, 23, 25, 26, 30, 31},
        {0, 1, 2, 3, 5, 11, 14, 15, 17, 19, 22, 26, 27, 30},
        {1, 3, 6, 7, 8, 10, 11, 14, 16, 18, 21, 24, 26, 29, 30},
        {0, 4, 9, 11, 13, 14, 15, 16, 18, 21, 22, 23, 26, 27},
        {2, 3, 6, 7, 9, 12, 13, 17, 18, 20, 22, 24, 25, 27, 28, 30, 31},
        {2, 3, 4, 5, 6, 8, 10, 16, 18, 19, 21, 22, 26, 27, 31},
        {0, 1, 2, 3, 4, 5, 9, 12, 13, 14, 15, 16, 17, 19, 20, 23, 25, 27, 28, 29},
        {1, 3, 10, 13, 14, 15, 17, 18, 19, 23, 27, 28, 30},
        {0, 1, 2, 4, 5, 6, 9, 11, 14, 18, 20, 21, 22, 24, 25, 31},
        {0, 1, 4, 8, 9, 16, 20, 21, 23, 26, 30, 31},
        {2, 3, 4, 7, 8, 9, 12, 13, 16, 20, 22, 23, 24, 25, 30},
        {0, 1, 2, 4, 5, 6, 12, 16, 19, 21, 22, 23, 24, 27, 29, 30},
        {0, 1, 5, 8, 10, 13, 21, 23, 25, 27, 31},
        {0, 2, 3, 4, 6, 8, 13, 15, 18, 19, 20, 21, 22, 24, 25, 27, 30, 31},
        {0, 3, 4, 5, 8, 9, 10, 11, 17, 20, 24, 26, 27, 29, 30},
        {0, 1, 4, 7, 9, 11, 15, 16, 18, 22, 23, 24, 25, 28, 31},
        {0, 1, 7, 8, 9, 10, 14, 15, 19, 21, 22, 23, 24, 25, 28, 29, 30, 31},
        {1, 2, 3, 4, 5, 11, 12, 13, 15, 19, 22, 23, 26, 27},
        {3, 4, 9, 11, 13, 15, 18, 19, 22, 23, 24, 27, 29, 31},
        {0, 1, 4, 6, 8, 9, 11, 16, 18, 19, 20, 23, 24, 25, 26, 30},
        {0, 1, 2, 3, 4, 5, 7, 8, 10, 14, 15, 16, 17, 18, 25, 26, 27, 28, 29},
        {0, 1, 2, 3, 4, 6, 7, 8, 9, 11, 12, 13, 14, 16, 17, 19, 20, 23, 24, 26, 27, 29, 31},
        {0, 1, 4, 7, 8, 9, 10, 11, 12, 13, 15, 17, 18, 21, 22, 24, 25, 27, 28},
        {5, 10, 13, 15, 20, 23, 26, 28, 29},
        {8, 10, 11, 12, 13, 14, 16, 19, 27, 30} >>,
     << {0, 1, 2, 3, 4, 6, 7, 8, 11, 12, 13, 17, 18, 20, 25, 27, 29, 31},
        {0, 1, 3, 8, 10, 11, 12, 13, 14, 16, 19, 20, 24, 26, 29, 31},
        {0, 1, 3, 4, 7, 13, 14, 16, 17, 18, 19, 20, 22, 23, 25, 27, 28, 29, 30},
        {0, 7, 10, 11, 13, 15, 18, 19, 21, 23, 26, 27, 28, 31},
        {1, 2, 3, 5, 10, 12, 13, 15, 16, 17, 19, 20, 23, 25, 26},
        {0, 1, 2, 5, 10, 11, 13, 18, 19, 21, 22, 23, 24, 27, 29, 31},
        {0, 1, 2, 3, 4, 5, 6, 7, 8, 10, 12, 13, 15, 20, 23, 24, 27, 31},
        {1, 4, 5, 6, 8, 10, 15, 16, 18, 22, 23, 24, 26, 30},
        {0, 2, 4, 7, 9, 12, 15, 16, 19, 20, 21, 22, 23, 24, 25, 26, 29, 30},
        {0, 4, 8, 10, 11, 17, 19, 21, 22, 25, 26, 28, 31},
        {1, 3, 4, 5, 8, 10, 11, 12, 14, 15, 16, 18, 25, 27, 30},
        {0, 5, 7, 8, 10, 11, 12, 13, 18, 20, 22, 23, 24, 28, 29, 30},
        {0, 1, 2, 3, 7, 10, 14, 17, 20, 21, 22, 23, 24, 25, 27, 29, 30},
        {0, 1, 2, 4, 5, 6, 7, 8, 11, 12, 16, 18, 19, 20, 21, 22, 25, 28, 29, 30, 31},
        {1, 3, 4, 5, 6, 7, 10, 12, 13, 14, 20, 21, 23, 25, 26, 27, 28, 29, 31},
        {1, 4, 5, 9, 10, 11, 17, 19, 21, 24, 25, 26, 29, 30, 31},
        {1, 5, 7, 9, 10, 12, 14, 19, 22, 23, 26, 27, 30, 31},
        {1, 2, 3, 4, 5, 8, 9, 11, 14, 15, 17, 20, 22, 24, 26, 27, 28, 29, 30},
        {0, 1, 2, 3, 4, 5, 7, 9, 10, 12, 13, 14, 15, 23, 26, 30},
        {1, 3, 8, 11, 13, 14, 16, 18, 19, 23, 25, 26, 27, 29, 30, 31},
        {0, 1, 7, 8, 9, 11, 13, 16, 18, 20, 22, 24, 29, 30},
        {2, 3, 4, 5, 6, 7, 9, 11, 12, 13, 16, 17, 18, 20, 21, 25, 26, 28, 30},
        {0, 1, 5, 6, 7, 8, 12, 14, 15, 16, 17, 22, 23, 24, 27, 29},
        {1, 2, 3, 4, 5, 6, 7, 8, 10, 15, 19, 20, 24, 26, 27, 28},
        {1, 2, 3, 7, 9, 13, 18, 20, 23, 24, 28, 29, 30},
        {1, 3, 6, 10, 11, 13, 15, 17, 21, 27},
        {0, 3, 4, 6, 7, 11, 12, 13, 14, 16, 20, 27, 29, 31},
        {0, 2, 5, 6, 8, 9, 10, 11, 13, 14, 15, 17, 19, 20, 21, 22, 25, 28, 30},
        {1, 3, 4, 14, 17, 19, 20, 21, 24, 25, 29, 31},
        {1, 4, 5, 6, 7, 11, 13, 15, 16, 17, 18, 19, 20, 23, 24, 25, 30},
        {0, 1, 2, 3, 5, 6, 9, 10, 11, 12, 13, 15, 17, 18, 20, 22, 26, 27, 31},
        {1, 4, 9, 11, 14, 15, 23, 25, 30} >>,
     << {0, 1, 2, 4, 5, 7, 8, 9, 10, 11, 12, 15, 16, 18, 19, 20, 27, 29},
        {0, 1, 2, 3, 10, 11, 13, 16, 27, 29, 30},
        {1, 2, 3, 4, 10, 16, 17, 19, 22, 24, 25, 28, 29, 30},
        {1, 2, 6, 7, 9, 10, 11, 15, 17, 19, 20, 21, 25, 26, 28, 29, 30, 31},
        {0, 1, 2, 3, 4, 5, 7, 8, 10, 11, 14, 15, 18, 19, 20, 21, 23, 25, 27, 28, 30, 31},
        {0, 1, 2, 6, 9, 11, 12, 14, 17, 18, 19, 22, 25, 27, 28, 30, 31},
        {0, 1, 2, 3, 7, 10, 11, 12, 13, 15, 20, 21, 24, 25, 27, 29},
        {4, 5, 6, 7, 9, 15, 21, 22, 24, 25, 31},
        {0, 4, 9, 11, 12, 14, 15, 18, 19, 21, 22, 23, 24, 25, 26, 27, 30},
        {0, 1, 3, 4, 5, 7, 8, 9, 11, 12, 13, 15, 18, 19, 20, 22, 23, 24, 28, 30},
        {2, 3, 4, 6, 7, 9, 11, 16, 18, 19, 28},
        {1, 4, 5, 6, 8, 11, 14, 15, 16, 19, 23, 24, 30},
        {2, 5, 8, 10, 11, 13, 14, 26, 27, 28, 30, 31},
        {1, 2, 6, 7, 10, 16, 17, 19, 26, 28, 29, 30},
        {0, 1, 3, 4, 5, 6, 7, 9, 11, 12, 15, 18, 19, 22, 23, 24, 25, 27, 28, 29, 30, 31},
        {0, 1, 7, 14, 16, 19, 20, 22, 24, 25, 26, 27, 30, 31},
        {0, 2, 5, 6, 7, 10, 11, 15, 17, 19, 21, 23, 25, 27, 28, 29, 30},
        {0, 5, 10, 14, 16, 18, 19, 22, 24, 25, 26, 30, 31},
        {2, 3, 5, 7, 9, 10, 11, 13, 15, 17, 21, 23, 24, 25, 26, 28, 29, 30, 31},
        {0, 1, 2, 3, 5, 6, 7, 8, 10, 11, 14, 16, 17, 18, 22, 29, 30, 31},
        {1, 2, 3, 5, 6, 7, 12, 14, 15, 18, 19, 20, 22, 23, 30},
        {0, 2, 3, 11, 13, 16, 19, 20, 21, 22, 23, 26, 30},
        {0, 1, 3, 4, 5, 6, 8, 11, 12, 13, 16, 17, 18, 20, 22, 24, 27, 29, 30, 31},
        {2, 4, 5, 6, 9, 10, 11, 12, 13, 14, 15, 16, 17, 20, 22, 24, 28, 29, 30, 31},
        {0, 1, 3, 5, 7, 9, 12, 13, 14, 16, 19, 23, 24, 25, 26, 27, 28, 30},
        {3, 4, 6, 10, 13, 14, 17, 19, 22, 24, 25, 27, 29},
        {0, 2, 8, 14, 15, 17, 19, 20, 21, 22, 23, 25, 31},
        {0, 1, 6, 7, 9, 10, 11, 14, 16, 20, 22, 24, 27},
        {1, 2, 3, 5, 6, 11, 12, 14, 20, 21, 23, 25, 29, 30, 31},
        {1, 2, 3, 5, 7, 8, 9, 10, 13, 15, 16, 23, 25, 26, 28},
        {0, 2, 3, 5, 8, 9, 10, 12, 14, 15, 16, 19, 20, 21, 23, 24, 25, 29},
        {2, 4, 5, 6, 7, 8, 10, 12, 14, 16, 18, 21, 22, 23, 26, 27, 30} >>,
     << {1, 2, 3, 5, 8, 10, 14, 17, 18, 19, 22, 23, 24, 25, 29, 30, 31},
        {2, 3, 5, 7, 8, 9, 13, 16, 17, 20, 21, 22, 25, 30},
        {1, 2, 3, 11, 12, 13, 14, 15, 16, 18, 20, 21, 22, 24, 25, 29, 30, 31},
        {0, 2, 3, 4, 5, 6, 9, 10, 11, 12, 14, 15, 16, 21, 22, 23, 25, 26, 27, 29},
        {0, 2, 3, 5, 7, 8, 9, 10, 15, 17, 21, 22, 23, 30},
        {1, 2, 4, 5, 8, 10, 12, 14, 18, 19, 21, 22, 23, 25, 30, 31},
        {1, 3, 6, 8, 9, 11, 12, 14, 18, 19, 20, 22, 23, 25, 27, 28, 30},
        {0, 5, 8, 11, 12, 16, 17, 18, 20, 23, 25, 26, 27, 28, 30, 31},
        {0, 1, 2, 3, 5, 6, 7, 8, 10, 13, 16, 17, 18, 19, 20, 22, 25},
        {1, 2, 5, 6, 8, 12, 14, 15, 16, 19, 21, 23, 24, 25, 26, 27, 28, 30, 31},
        {1, 2, 4, 5, 6, 7, 8, 10, 14, 15, 16, 18, 19, 22, 26},
        {1, 2, 4, 5, 8, 9, 13, 15, 16, 19, 21, 22, 31},
        {0, 1, 4, 5, 6, 8, 9, 12, 15, 16, 21, 23, 26, 27, 28},
        {2, 3, 5, 7, 9, 10, 13, 23, 25, 26},
        {0, 2, 3, 4, 5, 6, 8, 10, 11, 12, 16, 17, 23, 25, 26, 29, 31},
        {1, 3, 5, 6, 7, 8, 10, 12, 13, 16, 17, 18, 19, 23, 24, 25, 26, 27, 28, 31},
        {0, 1, 6, 8, 9, 11, 12, 13, 16, 26, 29, 30, 31},
        {0, 2, 6, 8, 10, 11, 12, 13, 16, 18, 23, 24, 25, 27, 31},
        {1, 3, 4, 6, 11, 18, 19, 22, 28, 29, 30},
        {3, 5, 6, 7, 8, 11, 12, 14, 15, 16, 17, 18, 21, 23, 26, 30},
        {0, 2, 3, 9, 10, 11, 12, 14, 15, 17, 18, 21, 23, 27, 28, 29, 30, 31},
        {1, 2, 3, 4, 5, 6, 8, 13, 14, 18, 23, 24, 26},
        {0, 1, 2, 3, 6, 8, 9, 10, 11, 12, 15, 16, 18, 19, 22, 27, 28, 30},
        {0, 2, 5, 6, 7, 9, 10, 11, 12, 15, 17, 18, 25, 27, 28, 31},
        {3, 6, 8, 14, 16, 18, 19, 20, 21, 22, 24, 27, 29, 30, 31},
        {0, 1, 2, 3, 4, 6, 10, 15, 17, 20, 21, 22, 23, 25, 26, 28, 29},
        {3, 9, 10, 15, 16, 18, 22, 23, 25, 26, 30},
        {0, 1, 4, 5, 6, 9, 10, 11, 13, 14, 15, 17, 18, 20, 21, 30},
        {0, 1, 4, 5, 7, 9, 10, 11, 14, 19, 20, 24, 27, 28, 29, 31},
        {0, 1, 3, 6, 7, 10, 11, 13, 17, 18, 20, 21, 23, 24, 27},
        {0, 1, 4, 5, 14, 15, 16, 17, 18, 19, 23, 24, 25, 26, 27, 29, 30, 31},
        {1, 4, 6, 9, 10, 13, 15, 20, 21, 24, 25, 26, 27, 30} >> >>

\* h ^= z
Xor(h, z) == (h \ z) \cup (z \ h)

RECURSIVE hashBits(_, _, _)
\* for (const i of bits(bb)) h ^= Z_PIECE[t][i]
hashBits(h, t, bb) ==
  IF bb = {} THEN h
  ELSE LET i == CHOOSE e \in bb : \A f \in bb : e <= f
       IN  hashBits(Xor(h, Z_PIECE[t + 1][i + 1]), t, bb \ {i})

hashPosition(p) ==
  LET h1 == hashBits({}, 0, p.p1Men)
      h2 == hashBits(h1, 1, p.p1Kings)
      h3 == hashBits(h2, 2, p.p2Men)
      h4 == hashBits(h3, 3, p.p2Kings)
  IN  IF p.side = 1 THEN Xor(h4, Z_SIDE) ELSE h4


\* ------------------------------------------------------------------------
\* eval.ts : the evaluate that alphabeta.ts imports (the variant with
\* captureInfo).  JavaScript computes the score in floating point and
\* truncates it at the end (score | 0); here the score is kept as an exact
\* fraction.  The two agree as long as a side has at most two kings, the
\* only non-integer terms then being tenths and halves.
\* ------------------------------------------------------------------------

START_TOTAL == 16

menOf(p, side)   == IF side = 1 THEN p.p1Men   ELSE p.p2Men
kingsOf(p, side) == IF side = 1 THEN p.p1Kings ELSE p.p2Kings

\* Math.round(k * eg) with eg = 1 - total / START_TOTAL
roundEg(k, total) == (k * (START_TOTAL - total) + 8) \div START_TOTAL

RECURSIVE distanceSum(_, _)
distanceSum(men, side) ==
  IF men = {} THEN 0
  ELSE LET i == CHOOSE e \in men : TRUE
       IN  (IF side = 1 THEN toRC(i).r ELSE 7 - toRC(i).r) + distanceSum(men \ {i}, side)

promotionDistanceSum(p, side) == distanceSum(menOf(p, side), side)

inCenter(s) ==
  toRC(s).r >= 2 /\ toRC(s).r <= 5 /\ toRC(s).c >= 2 /\ toRC(s).c <= 5

centerScore(p, side) ==
  Cardinality({ s \in menOf(p, side) : inCenter(s) })
  + Cardinality({ s \in kingsOf(p, side) : inCenter(s) })

backRankGuards(p, side) ==
  Cardinality({ i \in menOf(p, side) :
                  (side = 1 /\ toRC(i).r = 7) \/ (side = -1 /\ toRC(i).r = 0) })

mobility(p, side) ==
  [men  |-> Cardinality({ ik \in UNION { { << i, k >> : k \in 1..Len(STEPS[i]) } :
                                         i \in menOf(p, side) } :
                            /\ menDirAllowed(side, STEPS[ik[1]][ik[2]].dir)
                            /\ STEPS[ik[1]][ik[2]].to \notin occupied(p) }),
   king |-> Cardinality({ ik \in UNION { { << i, k >> : k \in 1..Len(STEPS[i]) } :
                                         i \in kingsOf(p, side) } :
                            STEPS[ik[1]][ik[2]].to \notin occupied(p) })]

trappedKings(p, side) ==
  Cardinality({ i \in kingsOf(p, side) :
                  \A k \in 1..Len(STEPS[i]) : STEPS[i][k].to \in occupied(p) })

\* Math.max(Math.abs(rk - re), Math.abs(ck - ce))
kingDistance(k, e) ==
  LET dr == toRC(k).r - toRC(e).r
      dc == toRC(k).c - toRC(e).c
      ar == IF dr < 0 THEN -dr ELSE dr
      ac == IF dc < 0 THEN -dc ELSE dc
  IN  IF ar > ac THEN ar ELSE ac

RECURSIVE nearestSum(_, _)
\* the sum over the kings of the distance to the nearest opposing piece
nearestSum(kings, opAll) ==
  IF kings = {} THEN 0
  ELSE LET k == CHOOSE e \in kings : TRUE
           near == CHOOSE x \in { kingDistance(k, e) : e \in opAll } :
                     \A y \in { kingDistance(k, e) : e \in opAll } : x <= y
       IN  near + nearestSum(kings \ {k}, opAll)

\* Math.max(0, 6 - sum / cnt) as the fraction num / den
kingProximityGain(p, side) ==
  LET myKings == kingsOf(p, side)
      opAll   == menOf(p, -side) \cup kingsOf(p, -side)
      cnt     == Cardinality(myKings)
      sum     == nearestSum(myKings, opAll)
  IN  IF opAll = {} \/ cnt = 0 THEN [num |-> 0, den |-> 1]
      ELSE [num |-> IF 6 * cnt - sum > 0 THEN 6 * cnt - sum ELSE 0, den |-> cnt]

captureInfo(p, side) ==
  CHOOSE ci \in
    { IF Len(ms) = 0 \/ Len(ms[1].captured) = 0
        THEN [maxChain |-> 0, targets |-> 0]
        ELSE [maxChain |-> CHOOSE n \in { Len(ms[k].captured) : k \in 1..Len(ms) } :
                             \A k \in 1..Len(ms) : Len(ms[k].captured) <= n,
              targets  |-> Cardinality(UNION { { ms[k].captured[j] :
                                                   j \in 1..Len(ms[k].captured) } :
                                               k \in 1..Len(ms) })]
      : ms \in { generateMoves([p EXCEPT !.side = side]) } } : TRUE

\* the simplification term of evaluate: SIMP * (START_TOTAL - (myAll + opAll))
simplificationTerm(p) ==
  LET myAll == Cardinality(menOf(p, p.side)) + Cardinality(kingsOf(p, p.side))
      opAll == Cardinality(menOf(p, -p.side)) + Cardinality(kingsOf(p, -p.side))
      leadSimple == (Cardinality(menOf(p, p.side)) - Cardinality(menOf(p, -p.side)))
                    + 2 * (Cardinality(kingsOf(p, p.side)) - Cardinality(kingsOf(p, -p.side)))
      leading == leadSimple > 0
      SIMP == 6 + (IF leading THEN roundEg(8, myAll + opAll) ELSE 0)
                + (IF leading /\ opAll <= 2 THEN 10 ELSE 0)
  IN  SIMP * (START_TOTAL - (myAll + opAll))

\* everything evaluate adds to score but the simplification term, as the
\* fraction num / den
evaluateOther(p) ==
  CHOOSE fr \in
  { LET myMenN   == Cardinality(menOf(p, p.side))
        myKingsN == Cardinality(kingsOf(p, p.side))
        opMenN   == Cardinality(menOf(p, -p.side))
        opKingsN == Cardinality(kingsOf(p, -p.side))
        total    == Cardinality(occupied(p))
        opAll    == opMenN + opKingsN
        leading  == (myMenN - opMenN) + 2 * (myKingsN - opKingsN) > 0
        \* eg >= 0.5, eg >= 0.7, eg >= 0.8
        egHalf   == 2 * (START_TOTAL - total) >= START_TOTAL
        eg07     == 10 * (START_TOTAL - total) >= 7 * START_TOTAL
        eg08     == 10 * (START_TOTAL - total) >= 8 * START_TOTAL
        W_KING   == 210 - (IF egHalf /\ leading THEN 60 ELSE 0)
                        - (IF eg08 /\ leading /\ opAll <= 2 THEN 90 ELSE 0)
        W_PROM   == 6 + roundEg(6, total)
        mMob     == mobility(p, p.side)
        oMob     == mobility(p, -p.side)
        kpMy     == kingProximityGain(p, p.side)
        kpOp     == kingProximityGain(p, -p.side)
        myCap    == cap[p.side]
        opCap    == cap[-p.side]
        whole    ==
            100 * (myMenN - opMenN)
          + W_KING * (myKingsN - opKingsN)
          + 2 * (mMob.men - oMob.men)
          + 3 * (mMob.king - oMob.king)
          + 2 * (centerScore(p, p.side) - centerScore(p, -p.side))
          + 3 * (backRankGuards(p, p.side) - backRankGuards(p, -p.side))
          + (0 - 12) * (trappedKings(p, p.side) - trappedKings(p, -p.side))
          + (IF myCap.maxChain # 0 \/ opCap.maxChain # 0
               THEN (90 + (IF eg07 THEN 20 ELSE 0)) * (myCap.maxChain - opCap.maxChain)
               ELSE 0)
          + (IF myCap.targets # 0 \/ opCap.targets # 0
               THEN (45 + roundEg(4, total)) * (myCap.targets - opCap.targets)
               ELSE 0)
          + (IF leading /\ opAll = 1 THEN 140 ELSE 0)
          + (IF leading /\ opAll <= 2 THEN 70 ELSE 0)
        den == 10 * kpMy.den * kpOp.den
    IN  [num |-> whole * den
                 + W_PROM * (promotionDistanceSum(p, -p.side)
                             - promotionDistanceSum(p, p.side)) * kpMy.den * kpOp.den
                 + 2 * 10 * (kpMy.num * kpOp.den - kpOp.num * kpMy.den),
         den |-> den]
    : cap \in { [s \in {1, -1} |-> captureInfo(p, s)] } } : TRUE

\* score | 0 : the fraction truncated towards zero
truncate(num, den) ==
  IF num >= 0 THEN num \div den ELSE 0 - ((0 - num) \div den)

evaluate(p) ==
  CHOOSE v \in
    { truncate(fr.num + fr.den * simplificationTerm(p), fr.den)
      : fr \in { evaluateOther(p) } } : TRUE

\* ------------------------------------------------------------------------
\* alphabeta.ts : helpers of the root (finisher scan, mobility at root)
\* ------------------------------------------------------------------------

INF == 1000000000

Max(a, b) == IF a > b THEN a ELSE b
Min(a, b) == IF a < b THEN a ELSE b

kingsOnlyAndCount(p) ==
  [kingsOnly |-> bitCount(p.p1Men \cup p.p2Men) = 0,
   ktotal    |-> bitCount(p.p1Kings) + bitCount(p.p2Kings)]

\* the pieces of the side that is not to move in p
oppPiecesBits(p) ==
  IF p.side = 1 THEN p.p2Men \cup p.p2Kings ELSE p.p1Men \cup p.p1Kings

RECURSIVE expand(_, _)
\* The finisher scan and the mobility bonus look up to four plies ahead of
\* the root.  expand(p0, n) is what generateMoves and applyMove return along
\* every line of n plies from p0: a node holds a position pos,
\* moves = generateMoves(pos) and, for n > 0, next[k] = the node of
\* applyMove(pos, moves[k]).  The helpers below read generateMoves(x) and
\* applyMove(x, m) off these nodes.
expand(p0, n) ==
  CHOOSE nd \in
    UNION { { [pos   |-> p,
               moves |-> ms,
               next  |-> IF n = 0 THEN << >>
                         ELSE [k \in 1..Len(ms) |-> expand(applyMove(p, ms[k]), n - 1)]]
              : ms \in {generateMoves(p)} }
            : p \in {p0} } : TRUE

\* isImmediateWin(pos), nd the node of pos
isImmediateWin(nd) ==
  IF bitCount(oppPiecesBits(nd.pos)) = 0 THEN TRUE
  ELSE Len(nd.moves) = 0

\* forcedMovesOnly(pos), nd the node of pos: the indices in nd.moves of the
\* moves returned
forcedMovesOnly(nd) ==
  IF \E k \in 1..Len(nd.moves) : Len(nd.moves[k].captured) > 0
    THEN { k \in 1..Len(nd.moves) : Len(nd.moves[k].captured) > 0 }
    ELSE 1..Len(nd.moves)

\* isRootForcedWinInTwo(root, m), nd the node of root and m = nd.moves[k]
isRootForcedWinInTwo(nd, k) ==
  \E afterMine \in {nd.next[k]} :
    \/ isImmediateWin(afterMine)
    \/ \A i \in forcedMovesOnly(afterMine) :
         \E afterOpp \in {afterMine.next[i]} :
           \E j \in forcedMovesOnly(afterOpp) :
             \E fin \in {afterOpp.next[j]} : isImmediateWin(fin)

\* isRootForcedWinInThree(root, m), nd the node of root and m = nd.moves[k]
isRootForcedWinInThree(nd, k) ==
  \E afterMine \in {nd.next[k]} :
    \A i \in forcedMovesOnly(afterMine) :
      \E afterOpp \in {afterMine.next[i]} :
        \E j \in forcedMovesOnly(afterOpp) :
          \E afterMy \in {afterOpp.next[j]} :
            \/ isImmediateWin(afterMy)
            \/ \A k2 \in forcedMovesOnly(afterMy) :
                 \E afterOpp2 \in {afterMy.next[k2]} : isImmediateWin(afterOpp2)

\* mobilityDropScore(root, m), nd the node of root and m = nd.moves[k]
mobilityDropScore(nd, k) ==
  LET after    == nd.next[k]
      oppMoves == Len(after.moves)
      kc       == kingsOnlyAndCount(after.pos)
      base     == Max(0, 12 - oppMoves)
  IN  IF kc.kingsOnly /\ kc.ktotal <= 3 THEN base * 6
      ELSE IF kc.kingsOnly THEN base * 4
      ELSE base * 2

\* the test of the finisher loop of searchRoot on move k
passesFinisher(nd, k) ==
  isRootForcedWinInTwo(nd, k) \/ isRootForcedWinInThree(nd, k)

\* mutant: the last passing move in generation order
rootFinisher_last(nd) ==
  IF \E k \in 1..Len(nd.moves) : passesFinisher(nd, k)
    THEN nd.moves[CHOOSE k \in 1..Len(nd.moves) :
                    /\ passesFinisher(nd, k)
                    /\ \A j \in (k + 1)..Len(nd.moves) : ~passesFinisher(nd, j)]
    ELSE NoMove

\* the finisher loop of searchRoot: the first move in generation order that
\* passes one of the two tests, NoMove when the loop ends without a return
rootFinisher(nd) ==
  IF \E k \in 1..Len(nd.moves) : passesFinisher(nd, k)
    THEN nd.moves[CHOOSE k \in 1..Len(nd.moves) :
                    /\ passesFinisher(nd, k)
                    /\ \A j \in 1..(k - 1) : ~passesFinisher(nd, j)]
    ELSE NoMove

\* lines 267-268: what searchRoot adds to the value of move k
rootBonus(nd, k) ==
  (IF passesFinisher(nd, k) THEN 500 ELSE 0) + Min(100, mobilityDropScore(nd, k))

\* mutant: the moves of the position with the other side to move
rootMemoOf_otherSide(rt) ==
  CHOOSE mm \in
    { [moves    |-> nd.moves,
       passes   |-> [k \in 1..Len(nd.moves) |-> FALSE],
       finisher |-> NoMove,
       bonus    |-> [k \in 1..Len(nd.moves) |-> 0]]
      : nd \in {expand([rt EXCEPT !.side = 0 - rt.side], 0)} } : TRUE

\* what searchRoot computes from pos alone, the same at every call for the
\* same root: generateMoves(pos), which moves pass the test of the finisher
\* loop, the move that loop returns (NoMove when it returns none) and the
\* bonus of every move
rootMemoOf(rt) ==
  CHOOSE mm \in
    { [moves    |-> nd.moves,
       passes   |-> [k \in 1..Len(nd.moves) |-> passesFinisher(nd, k)],
       finisher |-> rootFinisher(nd),
       bonus    |-> [k \in 1..Len(nd.moves) |-> rootBonus(nd, k)]]
      : nd \in {expand(rt, 4)} } : TRUE

\* ------------------------------------------------------------------------
\* alphabeta.ts : searchRoot and iterativeDeepening.  The interior search
\* (alphabeta, quiesce, evaluate) and the tables that order the moves (TT
\* move, killers, history, hash tiebreak) are not followed: the value of a
\* child is any member of ChildScores, the order of the root moves is any
\* permutation of the generated moves, and the deadline may pass between
\* any two steps and at any poll of the root loop.
\* ------------------------------------------------------------------------

\* the cap of the depth loop, cut down from 22
MaxIterDepth == 3

\* the values alphabeta may return for a child of the root
ChildScores == {-100, 100}

\* P1 to move with one or two men against one man, or one king against
\* one man; and the same positions turned by 180 degrees with P2 to move
SearchMenP1 == {4, 7, 14, 15, 17}
SearchMenP2 == {0, 1, 3, 12}
SearchKingP1 == {0, 4}
SearchKingVs == {5, 27}
\* the king roots come fresh and after 20 plies without a capture
SearchKingClocks == {0, 20}

TurnedPosition(p) ==
  [side |-> -p.side,
   p1Men |-> Turned(p.p2Men), p1Kings |-> Turned(p.p2Kings),
   p2Men |-> Turned(p.p1Men), p2Kings |-> Turned(p.p1Kings),
   halfmoveClock |-> p.halfmoveClock]

SearchRootsP1 ==
  { [side |-> 1, p1Men |-> A, p1Kings |-> {}, p2Men |-> {b}, p2Kings |-> {},
     halfmoveClock |-> 0] :
    A \in { X \in SUBSET SearchMenP1 : Cardinality(X) \in 1..2 }, b \in SearchMenP2 }
  \cup
  { [side |-> 1, p1Men |-> {}, p1Kings |-> {k}, p2Men |-> {b}, p2Kings |-> {},
     halfmoveClock |-> c] :
    k \in SearchKingP1, b \in SearchKingVs, c \in SearchKingClocks }

SearchRoots ==
  { p \in SearchRootsP1 \cup { TurnedPosition(q) : q \in SearchRootsP1 } :
      PositionOk(p) }

\* the orders the root loop may take the moves in: ordered[i] = moves[f[i]]
Orders(n) == { f \in [1..n -> 1..n] : \A i, j \in 1..n : i # j => f[i] # f[j] }

RECURSIVE rootLoop(_, _, _, _, _, _, _, _)
\* the loop of searchRoot over ordered from index i on.  The results it may
\* leave: [move, score, cut], cut telling that a poll of the loop found the
\* deadline exceeded.  exp: the deadline is exceeded already.  sc is the
\* value of move ordered[i] with its bonus; st holds bestScore, bestMove
\* and alpha after the move.
rootLoop(memo, f, i, a, b, bScore, bMove, exp) ==
  IF i > Len(memo.moves)
    THEN { [move |-> bMove, score |-> bScore, cut |-> FALSE] }
    ELSE
      \* if (Date.now() > deadline) break
      { [move |-> bMove, score |-> bScore, cut |-> TRUE] }
      \cup
      (IF exp THEN {}
       ELSE UNION { UNION {
              IF st.a >= b
                THEN { [move |-> st.m, score |-> st.s, cut |-> FALSE] }
                ELSE rootLoop(memo, f, i + 1, st.a, b, st.s, st.m, FALSE)
              : st \in { [s |-> IF sc > bScore THEN sc ELSE bScore,
                          m |-> IF sc > bScore THEN memo.moves[f[i]] ELSE bMove,
                          a |-> IF sc > a THEN sc ELSE a] } }
            : sc \in { (0 - v) + memo.bonus[f[i]] : v \in ChildScores } })

\* searchRoot(pos, depth, alpha, beta, ...) with ply = 0
searchRoot(memo, dp, a, b, exp) ==
  IF Len(memo.moves) = 0
    THEN { [move |-> NoMove, score |-> -999999, cut |-> FALSE] }
  ELSE IF memo.finisher # NoMove
    THEN { [move |-> memo.finisher, score |-> 900000, cut |-> FALSE] }
  ELSE UNION { rootLoop(memo, f, 1, a, b, -INF, NoMove, exp) :
               f \in Orders(Len(memo.moves)) }

\* Bound of tt.ts
EXACT == 0
LOWER == 1
UPPER == 2

\* (m.from << 5) | m.to
keyMove(mv) == mv.from * 32 + mv.to

\* lines 279-284 of searchRoot: << >> when nothing is put, else << entry >>.
\* res is what the root loop left in bestMove and bestScore, a0 and b0 the
\* window searchRoot was called with; the returns of lines 176 and 181 put
\* nothing.
rootEntry(memo, key, dp, a0, b0, res) ==
  IF Len(memo.moves) = 0 \/ memo.finisher # NoMove \/ res.move = NoMove
    THEN << >>
    ELSE << [key   |-> key,
             depth |-> dp,
             score |-> res.score,
             move  |-> keyMove(res.move),
             bound |-> IF res.score <= a0 THEN UPPER
                       ELSE IF res.score >= b0 THEN LOWER ELSE EXACT] >>

SearchInit ==
  /\ root \in SearchRoots
  /\ rootMemo = rootMemoOf(root)
  /\ depth = 1
  /\ alpha = -INF
  /\ beta = INF
  /\ result = [move |-> NoMove, score |-> 0]
  /\ best = NoMove
  /\ bestScore = 0
  /\ reached = 0
  /\ lastScore = 0
  /\ haveLast = FALSE
  /\ expired = FALSE
  /\ infos = << >>
  /\ ipc = "search"
  /\ WalkIdle /\ GameIdle /\ TTIdle /\ NodeIdle

\* the clock passes the deadline
DeadlinePasses ==
  /\ ipc \in {"search", "poll1", "poll2"}
  /\ ~expired
  /\ expired' = TRUE
  /\ UNCHANGED << root, rootMemo, depth, alpha, beta, result, best, bestScore, reached,
                  lastScore, haveLast, infos, ipc >>
  /\ UNCHANGED << walkVars, gameVars, ttVars, nodeVars >>

\* result = searchRoot(root, depth, alpha, beta, tt, deadline, st, 0, ROOT_BUDGET),
\* with the tt.put of its last lines
SearchRoot ==
  /\ ipc = "search"
  /\ \E key \in {hashPosition(root)} :
       \E out \in searchRoot(rootMemo, depth, alpha, beta, expired) :
         /\ result' = [move |-> out.move, score |-> out.score]
         /\ expired' = (expired \/ out.cut)
         /\ \E put \in {rootEntry(rootMemo, key, depth, alpha, beta, out)} :
              tt' = IF put = << >> THEN tt ELSE TTput(tt, put[1])
  /\ ipc' = "poll1"
  /\ UNCHANGED << root, rootMemo, depth, alpha, beta, best, bestScore, reached,
                  lastScore, haveLast, infos >>
  /\ UNCHANGED << ttOp, ttArg, ttBefore, ttGot >>
  /\ UNCHANGED << walkVars, gameVars, nodeVars >>

\* line 156: if (Date.now() > deadline) break
Poll1Break ==
  /\ ipc = "poll1"
  /\ expired
  /\ ipc' = "poll2"
  /\ UNCHANGED << root, rootMemo, depth, alpha, beta, result, best, bestScore, reached,
                  lastScore, haveLast, expired, infos >>
  /\ UNCHANGED << walkVars, gameVars, ttVars, nodeVars >>

\* mutant: a fail-low widens by 80
FailLow_half ==
  /\ ipc = "poll1"
  /\ ~expired
  /\ result.score <= alpha
  /\ alpha' = Max(-INF, alpha - 80)
  /\ ipc' = "search"
  /\ UNCHANGED << root, rootMemo, depth, beta, result, best, bestScore, reached,
                  lastScore, haveLast, expired, infos >>
  /\ UNCHANGED << walkVars, gameVars, ttVars, nodeVars >>

\* line 157: if (result.score <= alpha) { alpha = max(-INF, alpha - 160); continue }
FailLow ==
  /\ ipc = "poll1"
  /\ ~expired
  /\ result.score <= alpha
  /\ alpha' = Max(-INF, alpha - 160)
  /\ ipc' = "search"
  /\ UNCHANGED << root, rootMemo, depth, beta, result, best, bestScore, reached,
                  lastScore, haveLast, expired, infos >>
  /\ UNCHANGED << walkVars, gameVars, ttVars, nodeVars >>

\* line 158: if (result.score >= beta) { beta = min(+INF, beta + 160); continue }
FailHigh ==
  /\ ipc = "poll1"
  /\ ~expired
  /\ ~(result.score <= alpha)
  /\ result.score >= beta
  /\ beta' = Min(INF, beta + 160)
  /\ ipc' = "search"
  /\ UNCHANGED << root, rootMemo, depth, alpha, result, best, bestScore, reached,
                  lastScore, haveLast, expired, infos >>
  /\ UNCHANGED << walkVars, gameVars, ttVars, nodeVars >>

\* line 159: break
InWindow ==
  /\ ipc = "poll1"
  /\ ~expired
  /\ ~(result.score <= alpha)
  /\ ~(result.score >= beta)
  /\ ipc' = "poll2"
  /\ UNCHANGED << root, rootMemo, depth, alpha, beta, result, best, bestScore, reached,
                  lastScore, haveLast, expired, infos >>
  /\ UNCHANGED << walkVars, gameVars, ttVars, nodeVars >>

\* mutant: onInfo called before the deadline test of line 162
Poll2Break_info ==
  /\ ipc = "poll2"
  /\ expired
  /\ ipc' = "done"
  /\ infos' = Append(infos, [depth |-> depth, score |-> bestScore])
  /\ UNCHANGED << root, rootMemo, depth, alpha, beta, result, best, bestScore, reached,
                  lastScore, haveLast, expired >>
  /\ UNCHANGED << walkVars, gameVars, ttVars, nodeVars >>

\* line 162: if (Date.now() > deadline) break; then the return of line 168
Poll2Break ==
  /\ ipc = "poll2"
  /\ expired
  /\ ipc' = "done"
  /\ UNCHANGED << root, rootMemo, depth, alpha, beta, result, best, bestScore, reached,
                  lastScore, haveLast, expired, infos >>
  /\ UNCHANGED << walkVars, gameVars, ttVars, nodeVars >>

\* mutant: no deadline test at line 162
Commit_noPoll ==
  /\ ipc = "poll2"
  /\ IF result.move # NoMove
       THEN best' = result.move /\ bestScore' = result.score /\ reached' = depth
       ELSE UNCHANGED << best, bestScore, reached >>
  /\ lastScore' = result.score
  /\ haveLast' = TRUE
  /\ infos' = Append(infos, [depth |-> depth, score |-> bestScore'])
  /\ depth' = depth + 1
  /\ IF depth' <= MaxIterDepth
       THEN /\ alpha' = lastScore' - 80
            /\ beta' = lastScore' + 80
            /\ ipc' = "search"
       ELSE /\ UNCHANGED << alpha, beta >>
            /\ ipc' = "done"
  /\ UNCHANGED << root, rootMemo, result, expired >>
  /\ UNCHANGED << walkVars, gameVars, ttVars, nodeVars >>

\* lines 163-166, then depth++ and lines 146-148 of the next turn of the
\* loop, or the return of line 168 when depth has passed the cap
Commit ==
  /\ ipc = "poll2"
  /\ ~expired
  /\ IF result.move # NoMove
       THEN best' = result.move /\ bestScore' = result.score /\ reached' = depth
       ELSE UNCHANGED << best, bestScore, reached >>
  /\ lastScore' = result.score
  /\ haveLast' = TRUE
  /\ infos' = Append(infos, [depth |-> depth, score |-> bestScore'])
  /\ depth' = depth + 1
  /\ IF depth' <= MaxIterDepth
       THEN /\ alpha' = lastScore' - 80
            /\ beta' = lastScore' + 80
            /\ ipc' = "search"
       ELSE /\ UNCHANGED << alpha, beta >>
            /\ ipc' = "done"
  /\ UNCHANGED << root, rootMemo, result, expired >>
  /\ UNCHANGED << walkVars, gameVars, ttVars, nodeVars >>

SearchNext ==
  \/ DeadlinePasses \/ SearchRoot \/ Poll1Break \/ FailLow \/ FailHigh
  \/ InWindow \/ Poll2Break \/ Commit

SearchSpec == SearchInit /\ [][SearchNext]_vars

\* ------------------------------------------------------------------------
\* alphabeta.ts : alphabeta, quiesce and getPV.  One call is followed at a
\* time: its steps are taken one by one and, where it calls itself, either
\* the call is entered (the caller is then left behind) or its value is
\* taken to be any member of ChildScores.  The order of the moves of an
\* alphabeta node (TT move, killers, history) is any order.  A call that
\* has returned may be followed by the same call on the same table, as the
\* next iteration or a later invocation of the search makes it.
\* ------------------------------------------------------------------------

MAX_PLY == 96

\* the largest depth of the first call
MaxNodeDepth == 2

\* maxLen of getPV, cut down from 12
MaxPVLen == 1

\* calcRootBudget gives 1 or 2; a child gets that or less
NodeBudgets == {0, 1, 2}

\* the windows of the first call: the full window and a null window
NodeWindows == { [alpha |-> -INF, beta |-> INF], [alpha |-> 0, beta |-> 1] }

\* mutant: the extension not capped at the parent's depth
computeExtensionFlexible_uncapped(dp, budget, endgameSmall, oppHasCapture, parentHasSingle, childHasSingle) ==
  LET d0 == dp - 1
      e1 == d0 > 0 /\ budget > 0 /\ parentHasSingle
      d1 == IF e1 THEN d0 + 1 ELSE d0
      b1 == IF e1 THEN budget - 1 ELSE budget
      e2 == d1 > 0 /\ b1 > 0 /\ (endgameSmall \/ oppHasCapture \/ childHasSingle)
      d2 == IF e2 THEN d1 + 1 ELSE d1
      b2 == IF e2 THEN b1 - 1 ELSE b1
  IN  [depth |-> IF d2 < 0 THEN 0 ELSE d2, budget |-> b2]

computeExtensionFlexible(dp, budget, endgameSmall, oppHasCapture, parentHasSingle, childHasSingle) ==
  LET d0 == dp - 1
      e1 == d0 > 0 /\ budget > 0 /\ parentHasSingle
      d1 == IF e1 THEN d0 + 1 ELSE d0
      b1 == IF e1 THEN budget - 1 ELSE budget
      e2 == d1 > 0 /\ b1 > 0 /\ (endgameSmall \/ oppHasCapture \/ childHasSingle)
      d2 == IF e2 THEN d1 + 1 ELSE d1
      b2 == IF e2 THEN b1 - 1 ELSE b1
      d3 == IF d2 > dp THEN dp ELSE d2
  IN  [depth |-> IF d3 < 0 THEN 0 ELSE d3, budget |-> b2]

\* lines 318-339 of alphabeta for the move nd.moves[k] taken as ordered[i]
\* (i counted from 0) at depth dp with the given budget: the child, the
\* depth d and the budget of its first search
childSearch(nd, k, i, dp, budget) ==
  LET ch         == nd.next[k]
      total      == bitCount(occupied(ch.pos))
      oppHasCap  == \E j \in 1..Len(ch.moves) : Len(ch.moves[j].captured) > 0
      childHasSingle == Len(ch.moves) = 1
      ext        == computeExtensionFlexible(dp, budget, total <= 5, oppHasCap,
                                             Len(nd.moves) = 1, childHasSingle)
      isQuiet    == Len(nd.moves[k].captured) = 0
      disableLMR == Len(nd.moves) <= 2 \/ childHasSingle
      lateQuiet  == i >= 3 /\ ext.depth >= 2 /\ isQuiet /\ ~disableLMR
  IN  [child      |-> ch.pos,
       d          |-> IF lateQuiet THEN Max(0, ext.depth - 1) ELSE ext.depth,
       nextBudget |-> ext.budget]

\* lines 362-364 of alphabeta
nodeEntry(key, dp, bst, bestKey, a0, b0) ==
  [key   |-> key,
   depth |-> dp,
   score |-> bst,
   move  |-> bestKey,
   bound |-> IF bst <= a0 THEN UPPER ELSE IF bst >= b0 THEN LOWER ELSE EXACT]

\* caps.sort((a, b) => b.captured.length - a.captured.length) of the
\* captures among ms: longest first, generation order kept among equals
sortedCaps(ms) ==
  Flatten([j \in 1..8 |->
             SelectSeq([k \in 1..Len(ms) |-> k],
                       LAMBDA k : Len(ms[k].captured) = 9 - j)])

\* what a call computes from pos alone: generateMoves(pos) with the children
\* and their moves, hashPosition(pos) and evaluate(pos)
nodeMemoOf(p) ==
  [node |-> expand(p, 1), key |-> hashPosition(p), eval |-> evaluate(p)]

\* generateMoves(cur).find(m => m.from === from && m.to === to) of line 422:
\* the index of the first such move, 0 for undefined
findCand(ms, from, to) ==
  IF \E k \in 1..Len(ms) : ms[k].from = from /\ ms[k].to = to
    THEN CHOOSE k \in 1..Len(ms) :
           /\ ms[k].from = from /\ ms[k].to = to
           /\ \A j \in 1..(k - 1) : ~(ms[j].from = from /\ ms[j].to = to)
    ELSE 0

\* mutant: the first legal move is taken, whatever move the entry names
pvCand_firstMove(ms, mv) ==
  IF Len(ms) = 0 THEN << >> ELSE << ms[1] >>

\* lines 420-423 of getPV for the legal moves ms and the entry's move mv:
\* << >> for an undefined cand, << cand >> otherwise
pvCand(ms, mv) ==
  IF findCand(ms, (mv \div 32) % 32, mv % 32) = 0 THEN << >>
  ELSE << ms[findCand(ms, (mv \div 32) % 32, mv % 32)] >>

\* lines 418-423 of getPV: << >> where the loop breaks, << cand >> otherwise
pvStep(cur, hit) ==
  IF hit = << >> THEN << >>
  ELSE IF hit[1].move < 0 THEN << >>
  ELSE pvCand(generateMoves(cur), hit[1].move)

RECURSIVE getPV(_, _, _)
\* lines 424-425 of getPV for cand c, then the rest of the loop
pvPush(cur, t, c, maxLen) ==
  IF c = << >> THEN << >>
  ELSE c \o getPV(applyMove(cur, c[1]), t, maxLen - 1)

\* getPV(pos, tt, maxLen)
getPV(cur, t, maxLen) ==
  IF maxLen = 0 THEN << >>
  ELSE pvPush(cur, t, pvStep(cur, TTget(t, hashPosition(cur))), maxLen)

\* a man with a forced capture, a man that cannot move, a side without
\* pieces, one man against one or two men; P1 to move, and the same turned
NodePositionsP1 ==
  { [side |-> 1, p1Men |-> q.a, p1Kings |-> {}, p2Men |-> q.b, p2Kings |-> {},
     halfmoveClock |-> 0]
    : q \in { [a |-> {9}, b |-> {5}], [a |-> {4}, b |-> {0}], [a |-> {}, b |-> {5}],
              [a |-> {14}, b |-> {5}], [a |-> {14}, b |-> {0, 6}],
              [a |-> {14}, b |-> {10, 13}] } }

NodePositions ==
  NodePositionsP1 \cup { TurnedPosition(q) : q \in NodePositionsP1 }

NodeInit ==
  /\ nroot \in NodePositions
  /\ \E dp \in 0..MaxNodeDepth, bg \in NodeBudgets, w \in NodeWindows :
       nfirst = [fn |-> "alphabeta", pos |-> nroot, depth |-> dp,
                alpha |-> w.alpha, beta |-> w.beta, ply |-> 1, budget |-> bg]
  /\ frame = nfirst
  /\ nmemo = << >>
  /\ locals = NoLocals
  /\ nexpired = FALSE
  /\ npc = "call"
  /\ nret = << >>
  /\ npv = << >>
  /\ tt = EmptyMap /\ ttOp = "idle" /\ ttArg = << >>
  /\ ttBefore = EmptyMap /\ ttGot = << >>
  /\ WalkIdle /\ GameIdle /\ SearchIdle

\* the call is entered: what it computes from pos alone
Enter ==
  /\ npc = "call"
  /\ nmemo' = nodeMemoOf(frame.pos)
  /\ npc' = "entry"
  /\ UNCHANGED << nroot, nfirst, frame, locals, nexpired, nret, npv >>
  /\ UNCHANGED << walkVars, gameVars, ttVars, searchVars >>

\* the clock passes the deadline
NodeDeadlinePasses ==
  /\ npc = "entry" \/ (npc = "loop" /\ frame.fn = "alphabeta")
  /\ ~nexpired
  /\ nexpired' = TRUE
  /\ UNCHANGED << nroot, nfirst, frame, nmemo, locals, npc, nret, npv >>
  /\ UNCHANGED << walkVars, gameVars, ttVars, searchVars >>

\* alphabeta lines 292-293: return evaluate(pos)
AbEvalReturn ==
  /\ npc = "entry" /\ frame.fn = "alphabeta"
  /\ frame.ply >= MAX_PLY \/ nexpired
  /\ nret' = << nmemo.eval >>
  /\ npc' = "returned"
  /\ UNCHANGED << nroot, nfirst, frame, nmemo, locals, nexpired, npv >>
  /\ UNCHANGED << walkVars, gameVars, ttVars, searchVars >>

\* alphabeta line 294: return quiesce(pos, alpha, beta, deadline, acc, ply)
AbToQuiesce ==
  /\ npc = "entry" /\ frame.fn = "alphabeta"
  /\ ~(frame.ply >= MAX_PLY \/ nexpired)
  /\ frame.depth <= 0
  /\ frame' = [frame EXCEPT !.fn = "quiesce"]
  /\ UNCHANGED << nroot, nfirst, nmemo, locals, nexpired, npc, nret, npv >>
  /\ UNCHANGED << walkVars, gameVars, ttVars, searchVars >>

\* the window after the TT probe of lines 298-304, hit = << >> or << entry >>
probedWindow(hit, dp, a, b) ==
  IF hit # << >> /\ hit[1].depth >= dp
    THEN IF hit[1].bound = LOWER /\ hit[1].score > a
           THEN [alpha |-> hit[1].score, beta |-> b]
         ELSE IF hit[1].bound = UPPER /\ hit[1].score < b
           THEN [alpha |-> a, beta |-> hit[1].score]
         ELSE [alpha |-> a, beta |-> b]
    ELSE [alpha |-> a, beta |-> b]

\* whether lines 299-304 return hit.score
probeReturns(hit, dp, a, b) ==
  /\ hit # << >>
  /\ hit[1].depth >= dp
  /\ \/ hit[1].bound = EXACT
     \/ probedWindow(hit, dp, a, b).alpha >= probedWindow(hit, dp, a, b).beta

\* alphabeta lines 297-304: the TT probe returns hit.score
AbProbeReturn ==
  /\ npc = "entry" /\ frame.fn = "alphabeta"
  /\ ~(frame.ply >= MAX_PLY \/ nexpired)
  /\ frame.depth > 0
  /\ \E hit \in { TTget(tt, nmemo.key) } :
       /\ probeReturns(hit, frame.depth, frame.alpha, frame.beta)
       /\ nret' = << hit[1].score >>
  /\ npc' = "returned"
  /\ UNCHANGED << nroot, nfirst, frame, nmemo, locals, nexpired, npv >>
  /\ UNCHANGED << walkVars, gameVars, ttVars, searchVars >>

\* alphabeta lines 306-307: no legal move
AbNoMoves ==
  /\ npc = "entry" /\ frame.fn = "alphabeta"
  /\ ~(frame.ply >= MAX_PLY \/ nexpired)
  /\ frame.depth > 0
  /\ ~probeReturns(TTget(tt, nmemo.key), frame.depth, frame.alpha, frame.beta)
  /\ Len(nmemo.node.moves) = 0
  /\ nret' = << -999999 + frame.ply >>
  /\ npc' = "returned"
  /\ UNCHANGED << nroot, nfirst, frame, nmemo, locals, nexpired, npv >>
  /\ UNCHANGED << walkVars, gameVars, ttVars, searchVars >>

\* alphabeta lines 297-313: the probe does not return and there are moves
AbStartLoop ==
  /\ npc = "entry" /\ frame.fn = "alphabeta"
  /\ ~(frame.ply >= MAX_PLY \/ nexpired)
  /\ frame.depth > 0
  /\ ~probeReturns(TTget(tt, nmemo.key), frame.depth, frame.alpha, frame.beta)
  /\ Len(nmemo.node.moves) > 0
  /\ \E w \in { probedWindow(TTget(tt, nmemo.key), frame.depth, frame.alpha, frame.beta) } :
       locals' = [alpha |-> w.alpha, beta |-> w.beta, a0 |-> w.alpha, b0 |-> w.beta,
                  best |-> -INF, bestKey |-> -1, order |-> << >>, searched |-> {}]
  /\ npc' = "loop"
  /\ UNCHANGED << nroot, nfirst, frame, nmemo, nexpired, nret, npv >>
  /\ UNCHANGED << walkVars, gameVars, ttVars, searchVars >>

\* alphabeta line 316 with the deadline exceeded, then lines 362-367
AbBreak ==
  /\ npc = "loop" /\ frame.fn = "alphabeta"
  /\ nexpired
  /\ tt' = TTput(tt, nodeEntry(nmemo.key, frame.depth, locals.best, locals.bestKey,
                               locals.a0, locals.b0))
  /\ nret' = << locals.best >>
  /\ npc' = "returned"
  /\ UNCHANGED << nroot, nfirst, frame, nmemo, locals, nexpired, npv >>
  /\ UNCHANGED << ttOp, ttArg, ttBefore, ttGot >>
  /\ UNCHANGED << walkVars, gameVars, searchVars >>

\* the values sc may have after lines 341-351 for a child searched at
\* depth d as ordered[i]: the negated value of the first search, or of the
\* second one where lines 346-350 make it
searchedScores(i, dc, dp, a, b) ==
  UNION { IF i > 0 /\ (0 - v) > a /\ (dc < dp - 1 \/ (0 - v) < b)
            THEN { 0 - v2 : v2 \in ChildScores }
            ELSE { 0 - v }
          : v \in ChildScores }

\* alphabeta lines 316-360 for one move, the child's value taken from
\* ChildScores, and lines 362-367 when the loop ends with it
AbSearchMove ==
  /\ npc = "loop" /\ frame.fn = "alphabeta"
  /\ ~nexpired
  /\ \E k \in (1..Len(nmemo.node.moves)) \ locals.searched :
       \E cs \in { childSearch(nmemo.node, k, Cardinality(locals.searched),
                               frame.depth, frame.budget) } :
         \E sc \in searchedScores(Cardinality(locals.searched), cs.d, frame.depth,
                                  locals.alpha, locals.beta) :
           \E nl \in { [locals EXCEPT
                          !.best = IF sc > @ THEN sc ELSE @,
                          !.bestKey = IF sc > locals.best
                                        THEN keyMove(nmemo.node.moves[k]) ELSE @,
                          !.alpha = IF sc > @ THEN sc ELSE @,
                          !.searched = @ \cup {k}] } :
             /\ locals' = nl
             /\ IF nl.alpha >= nl.beta \/ nl.searched = 1..Len(nmemo.node.moves)
                  THEN /\ tt' = TTput(tt, nodeEntry(nmemo.key, frame.depth, nl.best,
                                                    nl.bestKey, nl.a0, nl.b0))
                       /\ nret' = << nl.best >>
                       /\ npc' = "returned"
                  ELSE /\ UNCHANGED << tt, nret >>
                       /\ npc' = "loop"
  /\ UNCHANGED << nroot, nfirst, frame, nmemo, nexpired, npv >>
  /\ UNCHANGED << ttOp, ttArg, ttBefore, ttGot >>
  /\ UNCHANGED << walkVars, gameVars, searchVars >>

\* the calls alphabeta may make at lines 343-349 while in its loop, and the
\* call quiesce makes at line 383 for its next capture
childCalls ==
  IF frame.fn = "alphabeta"
    THEN UNION {
           { [fn |-> "alphabeta", pos |-> cs.child, depth |-> cs.d,
              alpha |-> IF Cardinality(locals.searched) = 0
                          THEN 0 - locals.beta ELSE 0 - (locals.alpha + 1),
              beta |-> 0 - locals.alpha, ply |-> frame.ply + 1,
              budget |-> cs.nextBudget] }
           \cup
           { [fn |-> "alphabeta", pos |-> cs.child, depth |-> frame.depth - 1,
              alpha |-> 0 - locals.beta, beta |-> 0 - locals.alpha,
              ply |-> frame.ply + 1, budget |-> cs.nextBudget]
             : v \in { u \in ChildScores :
                         /\ Cardinality(locals.searched) > 0
                         /\ (0 - u) > locals.alpha
                         /\ (cs.d < frame.depth - 1 \/ (0 - u) < locals.beta) } }
           : cs \in { childSearch(nmemo.node, k, Cardinality(locals.searched),
                                  frame.depth, frame.budget)
                      : k \in (1..Len(nmemo.node.moves)) \ locals.searched } }
    ELSE { [fn |-> "quiesce",
            pos |-> nmemo.node.next[locals.order[Cardinality(locals.searched) + 1]].pos,
            depth |-> 0, alpha |-> 0 - locals.beta, beta |-> 0 - locals.alpha,
            ply |-> frame.ply + 1, budget |-> 0]
           : j \in { i \in {1} : Cardinality(locals.searched) < Len(locals.order) } }

\* a call of lines 343-349 of alphabeta or of line 383 of quiesce is
\* followed into the child
FollowCall ==
  /\ npc = "loop"
  /\ frame.fn = "alphabeta" => ~nexpired
  /\ frame' \in childCalls
  /\ locals' = NoLocals
  /\ npc' = "call"
  /\ UNCHANGED << nroot, nfirst, nmemo, nexpired, nret, npv >>
  /\ UNCHANGED << walkVars, gameVars, ttVars, searchVars >>

\* quiesce lines 371-372: return evaluate(pos)
QEvalReturn ==
  /\ npc = "entry" /\ frame.fn = "quiesce"
  /\ frame.ply >= MAX_PLY \/ nexpired
  /\ nret' = << nmemo.eval >>
  /\ npc' = "returned"
  /\ UNCHANGED << nroot, nfirst, frame, nmemo, locals, nexpired, npv >>
  /\ UNCHANGED << walkVars, gameVars, ttVars, searchVars >>

\* mutant: alpha is not raised to the stand-pat value
QStandPat_keepAlpha ==
  /\ npc = "entry" /\ frame.fn = "quiesce"
  /\ ~(frame.ply >= MAX_PLY \/ nexpired)
  /\ IF nmemo.eval >= frame.beta
       THEN /\ nret' = << nmemo.eval >>
            /\ npc' = "returned"
            /\ UNCHANGED locals
       ELSE /\ locals' = [NoLocals EXCEPT
                            !.alpha = frame.alpha,
                            !.beta = frame.beta,
                            !.order = sortedCaps(nmemo.node.moves)]
            /\ npc' = "loop"
            /\ UNCHANGED nret
  /\ UNCHANGED << nroot, nfirst, frame, nmemo, nexpired, npv >>
  /\ UNCHANGED << walkVars, gameVars, ttVars, searchVars >>

\* quiesce lines 374-379: stand pat, then the captures, longest first
QStandPat ==
  /\ npc = "entry" /\ frame.fn = "quiesce"
  /\ ~(frame.ply >= MAX_PLY \/ nexpired)
  /\ IF nmemo.eval >= frame.beta
       THEN /\ nret' = << nmemo.eval >>
            /\ npc' = "returned"
            /\ UNCHANGED locals
       ELSE /\ locals' = [NoLocals EXCEPT
                            !.alpha = Max(frame.alpha, nmemo.eval),
                            !.beta = frame.beta,
                            !.order = sortedCaps(nmemo.node.moves)]
            /\ npc' = "loop"
            /\ UNCHANGED nret
  /\ UNCHANGED << nroot, nfirst, frame, nmemo, nexpired, npv >>
  /\ UNCHANGED << walkVars, gameVars, ttVars, searchVars >>

\* quiesce lines 381-387 for the next capture, the child's value taken
\* from ChildScores
QSearchCap ==
  /\ npc = "loop" /\ frame.fn = "quiesce"
  /\ Cardinality(locals.searched) < Len(locals.order)
  /\ \E v \in ChildScores :
       IF (0 - v) >= locals.beta
         THEN /\ nret' = << 0 - v >>
              /\ npc' = "returned"
              /\ UNCHANGED locals
         ELSE /\ locals' = [locals EXCEPT
                              !.alpha = Max(@, 0 - v),
                              !.searched = @ \cup {locals.order[Cardinality(locals.searched) + 1]}]
              /\ UNCHANGED << nret, npc >>
  /\ UNCHANGED << nroot, nfirst, frame, nmemo, nexpired, npv >>
  /\ UNCHANGED << walkVars, gameVars, ttVars, searchVars >>

\* quiesce line 388: return alpha
QLoopEnd ==
  /\ npc = "loop" /\ frame.fn = "quiesce"
  /\ Cardinality(locals.searched) = Len(locals.order)
  /\ nret' = << locals.alpha >>
  /\ npc' = "returned"
  /\ UNCHANGED << nroot, nfirst, frame, nmemo, locals, nexpired, npv >>
  /\ UNCHANGED << walkVars, gameVars, ttVars, searchVars >>

\* getPV(root, tt) on the table as the call left it
ExtractPV ==
  /\ npc = "returned"
  /\ npv' = getPV(nroot, tt, MaxPVLen)
  /\ npc' = "pv"
  /\ UNCHANGED << nroot, nfirst, frame, nmemo, locals, nexpired, nret >>
  /\ UNCHANGED << walkVars, gameVars, ttVars, searchVars >>

\* the first call has returned and is made again on the table as it is
\* now, with a new deadline: at the same depth or, as the next iteration
\* does, one ply deeper
CallAgain ==
  /\ npc = "pv"
  /\ frame.ply = 1
  /\ \E dp \in {nfirst.depth, nfirst.depth + 1} :
       /\ dp <= MaxNodeDepth
       /\ nfirst' = [nfirst EXCEPT !.depth = dp]
  /\ frame' = nfirst'
  /\ locals' = NoLocals
  /\ nexpired' = FALSE
  /\ nret' = << >>
  /\ npv' = << >>
  /\ npc' = "call"
  /\ UNCHANGED << nroot, nmemo >>
  /\ UNCHANGED << walkVars, gameVars, ttVars, searchVars >>

NodeNext ==
  \/ Enter
  \/ NodeDeadlinePasses
  \/ AbEvalReturn
  \/ AbToQuiesce
  \/ AbProbeReturn
  \/ AbNoMoves
  \/ AbStartLoop
  \/ AbBreak
  \/ AbSearchMove
  \/ FollowCall
  \/ QEvalReturn
  \/ QStandPat
  \/ QSearchCap
  \/ QLoopEnd
  \/ ExtractPV
  \/ CallAgain

NodeSpec == NodeInit /\ [][NodeNext]_vars


\* ------------------------------------------------------------------------
\* Properties.  The board geometry is restated here by (row, column)
\* coordinates, independently of the STEPS table the generator walks.
\* ------------------------------------------------------------------------

RowOf(s) == s \div 4
ColOf(s) == 2 * (s % 4) + (IF RowOf(s) % 2 = 0 THEN 1 ELSE 0)

Abs(x) == IF x < 0 THEN -x ELSE x
Sgn(x) == IF x > 0 THEN 1 ELSE IF x < 0 THEN -1 ELSE 0

SameDiagonal(a, b) ==
  a # b /\ Abs(RowOf(a) - RowOf(b)) = Abs(ColOf(a) - ColOf(b))

\* the squares strictly between a and b on their common diagonal
Between(a, b) ==
  { s \in 0..31 :
      /\ SameDiagonal(a, s) /\ SameDiagonal(s, b)
      /\ Sgn(RowOf(s) - RowOf(a)) = Sgn(RowOf(b) - RowOf(a))
      /\ Sgn(ColOf(s) - ColOf(a)) = Sgn(ColOf(b) - ColOf(a))
      /\ Abs(RowOf(s) - RowOf(a)) < Abs(RowOf(b) - RowOf(a)) }

\* the square immediately beyond b as seen from a, -1 when off the board
Beyond(a, b) ==
  LET r == RowOf(b) + Sgn(RowOf(b) - RowOf(a))
      c == ColOf(b) + Sgn(ColOf(b) - ColOf(a))
  IN  IF r \in 0..7 /\ c \in 0..7 THEN r * 4 + (c \div 2) ELSE -1

\* the forward row direction of a side: P1 toward row 0, P2 toward row 7
Forward(side) == IF side = 1 THEN -1 ELSE 1
PromotionRow(side) == IF side = 1 THEN 0 ELSE 7

IsCapture(mv) == Len(mv.captured) > 0

Generated == pc = "loop"
HasParent == m # NoMove

PieceCount(p) == Cardinality(occupied(p))
CountOf(p, side) ==
  IF side = 1 THEN Cardinality(p.p1Men \cup p.p1Kings)
  ELSE Cardinality(p.p2Men \cup p.p2Kings)

\* a single jump exists for a man on square a of p's side to move
ManCanJump(p, a) ==
  \E e \in oppMen(p) \cup oppKings(p) :
    /\ RowOf(e) = RowOf(a) + Forward(p.side)
    /\ Abs(ColOf(e) - ColOf(a)) = 1
    /\ Beyond(a, e) >= 0
    /\ Beyond(a, e) \notin occupied(p)

\* a single jump exists for a king on square a of p's side to move
KingCanJump(p, a) ==
  \E e \in oppMen(p) \cup oppKings(p) :
    /\ SameDiagonal(a, e)
    /\ Between(a, e) \cap occupied(p) = {}
    /\ Beyond(a, e) >= 0
    /\ Beyond(a, e) \notin occupied(p)

CaptureAvailable(p) ==
  \/ \E a \in sideMen(p) : ManCanJump(p, a)
  \/ \E a \in sideKings(p) : KingCanJump(p, a)

RECURSIVE LandingsOf(_, _, _)
\* the squares the moving piece stands on after each jump of a chain, when
\* every jump lands immediately beyond the piece it takes
LandingsOf(cur, caps, i) ==
  IF i > Len(caps) THEN << >>
  ELSE << Beyond(cur, caps[i]) >> \o LandingsOf(Beyond(cur, caps[i]), caps, i + 1)

RECURSIVE KingJumpsOk(_, _, _, _, _, _)
\* replay of a king chain from cur: occ is the board without the moving king
\* and without the pieces taken so far
KingJumpsOk(cur, caps, i, occ, enemies, to) ==
  IF i > Len(caps) THEN cur = to
  ELSE LET e == caps[i]
           land == Beyond(cur, e)
       IN  /\ e \in enemies
           /\ SameDiagonal(cur, e)
           /\ Between(cur, e) \cap occ = {}
           /\ land >= 0
           /\ land \notin occ
           /\ KingJumpsOk(land, caps, i + 1, occ \ {e}, enemies \ {e}, to)

RECURSIVE ManJumpsOk(_, _, _, _, _, _, _)
\* replay of a man chain from cur: every jump one row forward over an
\* adjacent enemy onto the empty square beyond it
ManJumpsOk(side, cur, caps, i, occ, enemies, to) ==
  IF i > Len(caps) THEN cur = to
  ELSE LET e == caps[i]
           land == Beyond(cur, e)
       IN  /\ e \in enemies
           /\ RowOf(e) = RowOf(cur) + Forward(side)
           /\ Abs(ColOf(e) - ColOf(cur)) = 1
           /\ land >= 0
           /\ RowOf(land) = RowOf(cur) + 2 * Forward(side)
           /\ land \notin occ
           /\ ManJumpsOk(side, land, caps, i + 1, occ \ {e}, enemies \ {e}, to)

KingChainOk(p, mv) ==
  KingJumpsOk(mv.from, mv.captured, 1, occupied(p) \ {mv.from},
              oppMen(p) \cup oppKings(p), mv.to)

ManChainOk(p, mv) ==
  ManJumpsOk(p.side, mv.from, mv.captured, 1, occupied(p) \ {mv.from},
             oppMen(p) \cup oppKings(p), mv.to)

\* C1: when generateMoves returns a capture, every returned move captures
\* the same number of pieces, the maximum chain length among them.
C1_OnlyMaximumCaptures ==
  (Generated /\ \E k \in 1..Len(moves) : IsCapture(moves[k]))
    => \A k \in 1..Len(moves) :
         \A j \in 1..Len(moves) : Len(moves[k].captured) >= Len(moves[j].captured)

\* C2: forced capture: when some piece of the side to move can capture,
\* every returned move is a capture; a quiet move is returned only when no
\* piece of the side to move can capture.
C2_ForcedCapture ==
  Generated =>
    /\ CaptureAvailable(pos) =>
         (Len(moves) > 0 /\ \A k \in 1..Len(moves) : IsCapture(moves[k]))
    /\ (\E k \in 1..Len(moves) : ~IsCapture(moves[k])) => ~CaptureAvailable(pos)

\* C2 witness: captures were generated although a man of the side to move
\* has a free forward step or a king a free neighbouring square
C2_Witness ==
  /\ Generated
  /\ Len(moves) > 0
  /\ IsCapture(moves[1])
  /\ \E a \in sideMen(pos) \cup sideKings(pos) :
       \E t \in 0..31 :
         /\ t \notin occupied(pos)
         /\ Abs(ColOf(t) - ColOf(a)) = 1
         /\ RowOf(t) = RowOf(a) + Forward(pos.side)

\* C3: the four bitboards of every position of the walk are pairwise
\* disjoint and hold only squares 0..31.
C3_BitboardsDisjoint ==
  /\ pos.p1Men \cup pos.p1Kings \cup pos.p2Men \cup pos.p2Kings \subseteq 0..31
  /\ pos.p1Men \cap pos.p1Kings = {}
  /\ pos.p1Men \cap pos.p2Men = {}
  /\ pos.p1Men \cap pos.p2Kings = {}
  /\ pos.p1Kings \cap pos.p2Men = {}
  /\ pos.p1Kings \cap pos.p2Kings = {}
  /\ pos.p2Men \cap pos.p2Kings = {}

\* C3 witness: a position produced by a capturing move that promoted
C3_Witness ==
  HasParent /\ IsCapture(m) /\ m.promote /\ pc = "gen"

\* C4: after applyMove the clock is 0 when the move captured and the
\* parent's clock plus one otherwise; so it is 0 exactly after a capture.
C4_HalfmoveClock ==
  HasParent =>
    /\ pos.halfmoveClock = (IF IsCapture(m) THEN 0 ELSE parent.halfmoveClock + 1)
    /\ (pos.halfmoveClock = 0) <=> IsCapture(m)

\* C4 witness: a capture resets a clock that had been counting
C4_Witness ==
  HasParent /\ IsCapture(m) /\ parent.halfmoveClock > 0 /\ pos.halfmoveClock = 0

\* C5: no man stands on its own promotion row; a generated move that brings
\* a man there has promote set, and after applyMove the square holds a king
\* of the mover and no man.
C5_PromotionRow ==
  /\ \A s \in pos.p1Men : RowOf(s) # PromotionRow(1)
  /\ \A s \in pos.p2Men : RowOf(s) # PromotionRow(-1)
  /\ Generated =>
       \A k \in 1..Len(moves) :
         (moves[k].from \in sideMen(pos) /\ RowOf(moves[k].to) = PromotionRow(pos.side))
           => moves[k].promote
  /\ (HasParent /\ m.from \in sideMen(parent)
               /\ RowOf(m.to) = PromotionRow(parent.side))
       => /\ m.promote
          /\ m.to \in oppKings(pos)
          /\ m.to \notin oppMen(pos)

\* C5 witness: a man has just reached its promotion row by a capture
C5_Witness ==
  /\ HasParent
  /\ m.from \in sideMen(parent)
  /\ RowOf(m.to) = PromotionRow(parent.side)
  /\ IsCapture(m)
  /\ m.to \in oppKings(pos)

\* C6: every jump of a generated king capture slides over empty squares,
\* passes exactly one enemy and lands on the empty square immediately beyond
\* it; the move ends on the landing square of its last jump.
C6_KingShortLanding ==
  Generated =>
    \A k \in 1..Len(moves) :
      (IsCapture(moves[k]) /\ moves[k].from \in sideKings(pos))
        => KingChainOk(pos, moves[k])

\* C6 witness: a king capture over a distant piece with free squares beyond
\* the landing square
C6_Witness ==
  /\ Generated
  /\ \E k \in 1..Len(moves) :
       /\ IsCapture(moves[k])
       /\ moves[k].from \in sideKings(pos)
       /\ Between(moves[k].from, moves[k].captured[1]) # {}
       /\ Beyond(moves[k].captured[1], Beyond(moves[k].from, moves[k].captured[1])) >= 0
       /\ Beyond(moves[k].captured[1], Beyond(moves[k].from, moves[k].captured[1]))
            \notin occupied(pos)

\* C7: a generated man move goes forward only: a quiet move is one diagonal
\* step forward onto an empty square, a capture chain is made of forward
\* jumps over adjacent enemies onto the empty square beyond.
C7_MenForwardOnly ==
  Generated =>
    \A k \in 1..Len(moves) :
      moves[k].from \in sideMen(pos) =>
        IF IsCapture(moves[k])
          THEN ManChainOk(pos, moves[k])
          ELSE /\ RowOf(moves[k].to) = RowOf(moves[k].from) + Forward(pos.side)
               /\ Abs(ColOf(moves[k].to) - ColOf(moves[k].from)) = 1
               /\ moves[k].to \in 0..31
               /\ moves[k].to \notin occupied(pos)

\* C7 witness: a man's chain of two jumps was generated while an enemy
\* stands diagonally behind the man with a free square beyond it
C7_Witness ==
  /\ Generated
  /\ \E k \in 1..Len(moves) :
       /\ moves[k].from \in sideMen(pos)
       /\ Len(moves[k].captured) >= 2
  /\ \E a \in sideMen(pos) :
       \E e \in oppMen(pos) \cup oppKings(pos) :
         /\ RowOf(e) = RowOf(a) - Forward(pos.side)
         /\ Abs(ColOf(e) - ColOf(a)) = 1
         /\ Beyond(a, e) >= 0
         /\ Beyond(a, e) \notin occupied(pos)

\* C8: applyMove removes exactly the captured pieces: the total drops by
\* captured.length and the mover keeps its number of pieces.
C8_PieceCount ==
  HasParent =>
    /\ PieceCount(pos) = PieceCount(parent) - Len(m.captured)
    /\ CountOf(pos, parent.side) = CountOf(parent, parent.side)
    /\ PieceCount(pos) <= PieceCount(parent)

\* C8 witness: a move that took two pieces, a king among them
C8_Witness ==
  /\ HasParent
  /\ Len(m.captured) >= 2
  /\ \E i \in 1..Len(m.captured) : m.captured[i] \in oppKings(parent)

\* C9: the captured list of a generated move has no repeated square, lists
\* only squares held by opposing pieces, and its jumps are those possible
\* with the pieces taken earlier in the chain removed from the board.
C9_NoPieceJumpedTwice ==
  Generated =>
    \A k \in 1..Len(moves) :
      LET caps == moves[k].captured
      IN  /\ \A i, j \in 1..Len(caps) : i # j => caps[i] # caps[j]
          /\ \A i \in 1..Len(caps) : caps[i] \in oppMen(pos) \cup oppKings(pos)
          /\ IsCapture(moves[k]) =>
               IF moves[k].from \in sideKings(pos)
                 THEN KingChainOk(pos, moves[k])
                 ELSE ManChainOk(pos, moves[k])

\* C9 witness: a later jump of a chain passes over the square of a piece
\* taken earlier in the same chain
C9_Witness ==
  /\ Generated
  /\ \E k \in 1..Len(moves) :
       LET caps == moves[k].captured
           land == LandingsOf(moves[k].from, caps, 1)
       IN  \E i, j \in 1..Len(caps) :
             i < j /\ caps[i] \in Between(land[j - 1], caps[j])

\* C10: promote is set exactly on the moves of a man that end on the
\* mover's promotion row; a man's chain reaches that row only with its last
\* jump; no king move has promote set.
C10_PromoteFlag ==
  Generated =>
    \A k \in 1..Len(moves) :
      LET mv == moves[k]
          land == LandingsOf(mv.from, mv.captured, 1)
      IN  /\ mv.promote <=>
               (mv.from \in sideMen(pos) /\ RowOf(mv.to) = PromotionRow(pos.side))
          /\ mv.from \in sideKings(pos) => ~mv.promote
          /\ mv.from \in sideMen(pos) =>
               \A i \in 1..(Len(land) - 1) : RowOf(land[i]) # PromotionRow(pos.side)

\* C10 witness: a capturing king move that ends on the mover's promotion row
C10_Witness ==
  /\ Generated
  /\ \E k \in 1..Len(moves) :
       /\ moves[k].from \in sideKings(pos)
       /\ RowOf(moves[k].to) = PromotionRow(pos.side)
       /\ IsCapture(moves[k])

\* ------------------------------------------------------------------------
\* C18: generateMoves(initialPosition()) returns exactly 7 moves, all of
\* them quiet and non-promoting, each taking a P1 man from one of the
\* squares 24..27 one step diagonally forward to an empty square of 20..23.
\* ------------------------------------------------------------------------
C18_InitialMoves ==
  (Generated /\ pos = initialPosition) =>
    /\ Len(moves) = 7
    /\ \A i, j \in 1..Len(moves) : i # j => moves[i] # moves[j]
    /\ \A k \in 1..Len(moves) :
         /\ ~IsCapture(moves[k])
         /\ ~moves[k].promote
         /\ moves[k].from \in 24..27
         /\ moves[k].to \in 20..23
         /\ moves[k].from \in pos.p1Men
         /\ moves[k].to \notin occupied(pos)
         /\ RowOf(moves[k].to) = RowOf(moves[k].from) - 1
         /\ Abs(ColOf(moves[k].to) - ColOf(moves[k].from)) = 1

C18_Witness == Generated /\ pos = initialPosition /\ Len(moves) = 7

\* ------------------------------------------------------------------------
\* C19 as stated: with a P1 man on 24, a P2 man on 20 and nothing else,
\* P1 to move, generateMoves returns exactly one move, from 24, jumping
\* over 20 to the square diagonally beyond it, captured = [20], promote
\* false.
\* ------------------------------------------------------------------------
C19_JumpOver20 ==
  (Generated /\ pos = SingleJumpPosition(20)) =>
    /\ Len(moves) = 1
    /\ moves[1].from = 24
    /\ moves[1].captured = << 20 >>
    /\ moves[1].to = Beyond(24, 20)
    /\ ~moves[1].promote

\* C19 amended: square 20 is the up-left neighbour of 24 on the left edge
\* (Beyond(24, 20) is off the board), so with the P2 man on 20 the one
\* move returned is the quiet step 24 -> 21; the forced single jump
\* arises with the P2 man on the other forward neighbour, 21: exactly one
\* move, from 24 over 21 to 17, captured = [21], promote false.
C19_SingleJump ==
  /\ (Generated /\ pos = SingleJumpPosition(20)) =>
        /\ Beyond(24, 20) = -1
        /\ moves = << mkMove(24, 21, << >>, FALSE) >>
  /\ (Generated /\ pos = SingleJumpPosition(21)) =>
        /\ Len(moves) = 1
        /\ moves[1].from = 24
        /\ moves[1].captured = << 21 >>
        /\ moves[1].to = Beyond(24, 21)
        /\ moves[1].to = 17
        /\ ~moves[1].promote

C19_Witness ==
  /\ Generated
  /\ pos = SingleJumpPosition(21)
  /\ Len(moves) = 1
  /\ IsCapture(moves[1])

\* ------------------------------------------------------------------------
\* C17: isDrawByInactivity(p) is true exactly when P1 has at most 2 pieces
\* (men plus kings), P2 has at most 2 pieces and halfmoveClock >= 20.
\* ------------------------------------------------------------------------
C17_DrawByInactivity ==
  gpc \in {"moves?", "over"} =>
    (gdraw <=> /\ Cardinality(gpos.p1Men \cup gpos.p1Kings) <= 2
               /\ Cardinality(gpos.p2Men \cup gpos.p2Kings) <= 2
               /\ gpos.halfmoveClock >= 20)

\* the test came out true on a position with the clock at exactly 20
C17_Witness ==
  /\ gpc = "over" /\ gdraw /\ gresult = << 0 >> /\ plyCount > 0
  /\ gpos.halfmoveClock = 20

\* ------------------------------------------------------------------------
\* C16: TT.put(e) replaces the entry stored under e.key exactly when no
\* entry is stored there or e.depth >= the stored depth, and otherwise
\* leaves the table unchanged, so a put never lowers the depth stored
\* under a key; TT.get(k) returns an entry only if that entry's key is k.
\* ------------------------------------------------------------------------
C16_DepthPreferred ==
  /\ ttOp = "put" =>
       LET e == ttArg[1]
           replaces == e.key \notin DOMAIN ttBefore
                       \/ e.depth >= ttBefore[e.key].depth
       IN  /\ replaces => (e.key \in DOMAIN tt /\ tt[e.key] = e)
           /\ ~replaces => tt = ttBefore
           /\ \A k \in DOMAIN ttBefore :
                /\ k \in DOMAIN tt
                /\ tt[k].depth >= ttBefore[k].depth
                /\ k # e.key => tt[k] = ttBefore[k]
           /\ DOMAIN tt = (DOMAIN ttBefore) \cup {e.key}
  /\ ttOp = "get" =>
       /\ ttGot # << >> => ttGot[1].key = ttArg[1] /\ ttGot[1] = tt[ttArg[1]]
       /\ ttGot = << >> => ttArg[1] \notin DOMAIN tt
       /\ tt = ttBefore
  /\ \A k \in DOMAIN tt : tt[k].key = k

\* a shallower entry was put over a deeper one and the table kept the deeper
C16_Witness ==
  /\ ttOp = "put"
  /\ ttArg[1].key \in DOMAIN ttBefore
  /\ ttArg[1].depth < ttBefore[ttArg[1].key].depth
  /\ tt = ttBefore

\* ------------------------------------------------------------------------
\* Properties of the search.
\* ------------------------------------------------------------------------

MoveIn(mv, ms) == \E k \in 1..Len(ms) : ms[k] = mv

\* iterativeDeepening has returned { best, score: bestScore, depth: reached }
Returned == ipc = "done"

\* the side to move in p has no legal move
NoLegalMove(p) == Len(generateMoves(p)) = 0

\* the indices of the moves of p after which the opponent has no legal reply
WinningNow(p) ==
  { k \in 1..Len(generateMoves(p)) : NoLegalMove(applyMove(p, generateMoves(p)[k])) }

\* p is won for side s: the opponent of s has no piece left, or is to move
\* and has no legal move
WonFor(s, p) ==
  LET theirs == IF s = 1 THEN p.p2Men \cup p.p2Kings ELSE p.p1Men \cup p.p1Kings
  IN  theirs = {} \/ (p.side # s /\ NoLegalMove(p))

\* mv is a forced win of at most three plies for the side to move in rt
GenuineForcedWin(rt, mv) ==
  LET s == rt.side
      afterMine == applyMove(rt, mv)
      opp1 == generateMoves(afterMine)
  IN  \/ WonFor(s, afterMine)
      \/ \A i \in 1..Len(opp1) :
           LET afterOpp == applyMove(afterMine, opp1[i])
               my2 == generateMoves(afterOpp)
           IN  \E j \in 1..Len(my2) :
                 LET afterMy == applyMove(afterOpp, my2[j])
                     opp2 == generateMoves(afterMy)
                 IN  \/ WonFor(s, afterMy)
                     \/ \A k \in 1..Len(opp2) : WonFor(s, applyMove(afterMy, opp2[k]))

\* ------------------------------------------------------------------------
\* C11: whenever iterativeDeepening returns a defined best, that move is a
\* member of generateMoves(root), whatever the order of the root moves and
\* the values of the children (hence whatever the TT held) and whenever the
\* deadline passes.
\* ------------------------------------------------------------------------
C11_BestIsLegal ==
  best # NoMove => MoveIn(best, generateMoves(root))

\* a best move was returned after the deadline cut a later depth
C11_Witness ==
  /\ Returned /\ expired
  /\ best # NoMove
  /\ reached >= 1 /\ depth = reached + 1

\* ------------------------------------------------------------------------
\* C12: once the deadline is exceeded nothing more is committed: best,
\* bestScore, reached, lastScore and the calls of onInfo stay as the last
\* completed depth left them, whatever the root search of the depth under
\* way returns, the depth loop does not advance, and from the deadline
\* tests the driver goes to its return; best, bestScore and reached change
\* only together, at a commit made with the deadline not exceeded, to the
\* move and score searchRoot returned for that depth.
\* ------------------------------------------------------------------------
C12_DeadlineDiscardsDepth ==
  [][ /\ expired =>
           /\ best' = best /\ bestScore' = bestScore /\ reached' = reached
           /\ lastScore' = lastScore /\ haveLast' = haveLast
           /\ infos' = infos /\ depth' = depth
           /\ ipc = "search" => ipc' = "poll1"
           /\ ipc = "poll1" => ipc' = "poll2"
           /\ ipc = "poll2" => ipc' = "done"
      /\ (best' # best \/ bestScore' # bestScore \/ reached' # reached) =>
           /\ ~expired /\ ~expired'
           /\ ipc = "poll2"
           /\ best' = result.move /\ bestScore' = result.score
           /\ reached' = depth ]_vars

\* the deadline cut depth 2 or 3 after its root search had returned another
\* result than the one committed, and the committed one was returned
C12_Witness ==
  /\ Returned /\ expired
  /\ reached >= 1 /\ depth = reached + 1
  /\ result.move # NoMove
  /\ (result.move # best \/ result.score # bestScore)
  /\ Len(infos) = reached /\ Last(infos).score = bestScore

\* ------------------------------------------------------------------------
\* C13 as stated: iterativeDeepening returns best = undefined exactly when
\* no depth completed a root-move evaluation and generateMoves(root) is
\* empty; in particular a best move is returned whenever the root has a
\* legal move, at whatever moment the deadline expires.
\* ------------------------------------------------------------------------
C13_BestUndefinedIffNoMoves ==
  Returned =>
    /\ (best = NoMove) <=> (reached = 0 /\ NoLegalMove(root))
    /\ ~NoLegalMove(root) => best # NoMove

\* ------------------------------------------------------------------------
\* C14 as stated: from a root where the mover has a move after which the
\* opponent has no legal reply, iterativeDeepening, depth 1 having
\* completed before the deadline, returns as best a move after which the
\* opponent has no legal reply.
\* ------------------------------------------------------------------------
C14_ImmediateWinReturned ==
  (Returned /\ Len(infos) >= 1 /\ WinningNow(root) # {}) =>
    /\ best # NoMove
    /\ NoLegalMove(applyMove(root, best))

\* C14 amended: from such a root iterativeDeepening, depth 1 having
\* completed, returns with score 900000 the first move in generation order
\* that passes isRootForcedWinInTwo or isRootForcedWinInThree; that move
\* is generated no later than every move after which the opponent has no
\* legal reply, and it is such a move itself when no move generated before
\* the first of them passes one of the two tests.
C14_FirstFinisherReturned ==
  (Returned /\ Len(infos) >= 1 /\ WinningNow(root) # {}) =>
    LET ms    == generateMoves(root)
        first == CHOOSE k \in WinningNow(root) : \A j \in WinningNow(root) : k <= j
        pass(k) == rootMemo.passes[k]
    IN  /\ best # NoMove
        /\ bestScore = 900000
        /\ reached = Len(infos)
        /\ \E kb \in 1..first :
             /\ ms[kb] = best
             /\ pass(kb)
             /\ \A j \in 1..(kb - 1) : ~pass(j)
        /\ (\A j \in 1..(first - 1) : ~pass(j)) =>
             (best = ms[first] /\ NoLegalMove(applyMove(root, best)))

\* the move returned is a forced win that leaves the opponent a legal
\* reply, although a move generated after it leaves none
C14_Witness ==
  /\ Returned /\ Len(infos) >= 1
  /\ WinningNow(root) # {}
  /\ best # NoMove
  /\ ~NoLegalMove(applyMove(root, best))
  /\ GenuineForcedWin(root, best)
  /\ bestScore = 900000

\* ------------------------------------------------------------------------
\* C15: onInfo is invoked exactly once for each depth that completed before
\* the deadline, in strictly increasing order of depth starting at 1, and
\* never for a depth the deadline cut: the calls made so far are those of
\* the depths 1 .. depth - 1, in this order, depth being the depth under
\* way (or the one the deadline cut, or the cap plus one).
\* ------------------------------------------------------------------------
C15_OnInfoPerCompletedDepth ==
  ipc \in {"search", "poll1", "poll2", "done"} =>
    /\ Len(infos) = depth - 1
    /\ \A i \in 1..Len(infos) : infos[i].depth = i
    /\ Len(infos) <= MaxIterDepth
    /\ (Returned /\ ~expired) => Len(infos) = MaxIterDepth

\* two depths completed and reported, the third cut by the deadline
C15_Witness ==
  /\ Returned /\ expired
  /\ depth = 3
  /\ Len(infos) = 2
  /\ result.move # NoMove

\* ------------------------------------------------------------------------
\* C20 as stated: the finisher scan of searchRoot returns a move with
\* score 900000 only if the move is a genuine short forced win: after it
\* the opponent has no legal reply, or every reply of the opponent admits
\* a response of the mover after which the opponent has no legal move or
\* after which every further reply of the opponent leaves a position won
\* for the root mover; never because the root mover itself is left without
\* pieces or without a legal move.
\* ------------------------------------------------------------------------
C20_FinisherIsForcedWin ==
  (ipc = "poll1" /\ depth = 1 /\ result.score = 900000) =>
    /\ result.move # NoMove
    /\ GenuineForcedWin(root, result.move)


\* ------------------------------------------------------------------------
\* C27: in iterativeDeepening depth 1 is searched with the window
\* (-INF, +INF) and every later depth starts with lastScore - 80 ..
\* lastScore + 80; a fail-low (score <= alpha) lowers alpha by exactly 160
\* and leaves beta, a fail-high (score >= beta) raises beta by exactly 160
\* and leaves alpha; the result of a depth is committed only when the
\* deadline has not passed and alpha < score < beta for the window of the
\* last attempt.
\* ------------------------------------------------------------------------
C27_AspirationWindow ==
  [][ /\ (depth = 1 /\ ipc # "idle") => (alpha = -INF /\ beta = INF)
      /\ (depth' = depth + 1 /\ ipc' = "search") =>
           (alpha' = lastScore' - 80 /\ beta' = lastScore' + 80)
      /\ (depth' = depth /\ alpha' # alpha) =>
           /\ result.score <= alpha
           /\ alpha' = alpha - 160
           /\ beta' = beta
      /\ (depth' = depth /\ beta' # beta) =>
           /\ result.score >= beta
           /\ beta' = beta + 160
           /\ alpha' = alpha
      /\ (<< best, bestScore, reached, lastScore, haveLast, infos >>' #
          << best, bestScore, reached, lastScore, haveLast, infos >>) =>
           /\ ~expired
           /\ alpha < result.score /\ result.score < beta
    ]_vars

\* depth 2 is about to be committed after one fail-low widened its window
C27_Witness ==
  /\ ipc = "poll2" /\ ~expired
  /\ depth = 2
  /\ alpha = lastScore - 240 /\ beta = lastScore + 80
  /\ alpha < result.score /\ result.score < beta


\* ------------------------------------------------------------------------
\* C29 as stated: within generateMoves(p) of any reachable position no two
\* distinct moves share the same (from, to) pair, so that the packed key
\* from<<5 | to identifies exactly one legal move and one captured list.
\* ------------------------------------------------------------------------
C29_UniqueFromTo ==
  pc = "loop" =>
    \A i, j \in 1..Len(moves) :
      (moves[i].from = moves[j].from /\ moves[i].to = moves[j].to) => i = j


\* ------------------------------------------------------------------------
\* C22 as stated: the +500 finisher bonus and the mobility-drop bonus added
\* at the root affect only which root move is selected; the score that
\* searchRoot stores in the transposition table for the root and the score
\* it returns to the driver are search scores without these bonuses, i.e.
\* the negation of a value alphabeta returned for a child.
\* ------------------------------------------------------------------------
C22_BonusNotInScore ==
  (ipc = "poll1" /\ result.move # NoMove /\ rootMemo.finisher = NoMove) =>
    /\ result.score \in { 0 - v : v \in ChildScores }
    /\ \E e \in {TTget(tt, hashPosition(root))} :
         /\ e # << >>
         /\ e[1].score \in { 0 - v : v \in ChildScores }


\* ------------------------------------------------------------------------
\* C23 as stated: the draw-by-inactivity test is applied to the root
\* position of the search: a root that is an inactivity draw is recognised
\* as such, searchRoot returning no move and the draw score 0 for it (and
\* no interior node returns a draw score because of isDrawByInactivity).
\* ------------------------------------------------------------------------
C23_RootDrawRecognised ==
  (ipc = "poll1" /\ isDrawByInactivity(root)) =>
    (result.move = NoMove /\ result.score = 0)

\* ------------------------------------------------------------------------
\* C21: a call of alphabeta or quiesce on a position whose side to move has
\* no legal move, the deadline not exceeded, returns -(999999 - ply); this
\* includes the calls at depth 0 that alphabeta hands to quiesce.
\* ------------------------------------------------------------------------
C21_NoMovesIsLoss ==
  (npc = "returned" /\ ~nexpired /\ Len(nmemo.node.moves) = 0)
    => nret = << 0 - (999999 - frame.ply) >>

\* ------------------------------------------------------------------------
\* C24: every entry of the table written by alphabeta comes from a searched
\* move: its score is not the initial -INF, its move is a packed key in
\* 0..1023, and the entry of the position of the call followed names a
\* move that is legal there; also when the deadline passes inside the node.
\* ------------------------------------------------------------------------
C24_EntriesFromSearchedMoves ==
  \A k \in DOMAIN tt :
    /\ tt[k].score # -INF
    /\ tt[k].move \in 0..1023
    /\ (npc # "call" /\ k = nmemo.key)
         => \E j \in 1..Len(nmemo.node.moves) :
              keyMove(nmemo.node.moves[j]) = tt[k].move

C26_CallsDescend ==
  [][ (npc = "loop" /\ npc' = "call") =>
        IF frame.fn = "alphabeta"
          THEN /\ frame'.fn = "alphabeta"
               /\ frame'.depth <= frame.depth
               /\ frame'.budget >= 0
               /\ frame'.depth + frame'.budget < frame.depth + frame.budget
          ELSE /\ frame'.fn = "quiesce"
               /\ bitCount(occupied(frame'.pos)) < bitCount(occupied(frame.pos))
    ]_vars

\* the first call has made a call for which both extensions were granted
\* and the depth was capped at its own
C26_Witness ==
  /\ npc = "call" /\ frame.ply = 2 /\ frame.fn = "alphabeta"
  /\ nfirst.depth = MaxNodeDepth
  /\ frame.depth = nfirst.depth
  /\ frame.budget = nfirst.budget - 2

\* whether the table's entry hit (<< >> for none) ends the line at a
\* position with the legal moves ms
EndsLine(ms, hit) ==
  \/ hit = << >>
  \/ hit # << >> /\ hit[1].move < 0
  \/ hit # << >> /\ \A k \in 1..Len(ms) : keyMove(ms[k]) # hit[1].move

\* whether mv is legal among ms and is the move the entry hit names
ContinuesLine(ms, hit, mv) ==
  /\ \E k \in 1..Len(ms) : ms[k] = mv
  /\ hit # << >>
  /\ hit[1].move = keyMove(mv)

\* whether line is a legal line from p that follows the moves of the
\* entries of t and, where shorter than n, ends at a position without an
\* entry, with a negative move, or with a move that is not legal there
RECURSIVE FollowsTable(_, _, _, _)
FollowsTable(p, t, line, n) ==
  IF line = << >>
    THEN n = 0 \/ EndsLine(generateMoves(p), MapGet(t, hashPosition(p)))
    ELSE /\ n > 0
         /\ ContinuesLine(generateMoves(p), MapGet(t, hashPosition(p)), Head(line))
         /\ FollowsTable(applyMove(p, Head(line)), t, Tail(line), n - 1)

MaterialLead(p) ==
  (Cardinality(menOf(p, p.side)) - Cardinality(menOf(p, -p.side)))
  + 2 * (Cardinality(kingsOf(p, p.side)) - Cardinality(kingsOf(p, -p.side)))

\* ------------------------------------------------------------------------
\* C30: the simplification term evaluate adds for the position of a call
\* has the sign of the mover's material lead: positive when the mover
\* leads, negative when the mover trails, 0 when material is level.
\* ------------------------------------------------------------------------
C30_SimplificationSigned ==
  npc \in {"entry", "loop", "returned"}
    => Sgn(simplificationTerm(frame.pos)) = Sgn(MaterialLead(frame.pos))

====
